---- MODULE Spec2Model ----
(***************************************************************************)
(* Model of FreightBillingChecker (src/freight_billing_tracker.py): the    *)
(* three persisted tables (shipment_data, billing_checklist, upload_log),  *)
(* the processed-files list and the input folder of the configuration,    *)
(* and the operations that read and rewrite them.  A table is the sequence *)
(* of its rows as they                                                     *)
(* stand in the Excel file; an operation is one atomic step that loads,    *)
(* transforms and saves, as the single-session code does.                  *)
(*                                                                         *)
(* Scope of the data: carrier, client and cycle names are non-empty,       *)
(* non-numeric text; amounts are small integers (sums are exact).  Of the  *)
(* sixteen canonical shipment columns the model keeps the ten the          *)
(* operations read or write; service_type, weight, zone, ship_date,        *)
(* delivery_date and upload_timestamp (and upload_date of the log) are     *)
(* written once and never read by an operation.  Time is a day counter.    *)
(*                                                                         *)
(* The functions that touch no table (parse_filename, the column mapper    *)
(* and the required-columns test) are examined on their own: probe holds   *)
(* the input and the result of one such call.  A text they take apart is   *)
(* a sequence of one-character strings.  sessions holds the two sessions   *)
(* of the runs in which the loads and saves of two operations interleave.  *)
(***************************************************************************)
EXTENDS Integers, Sequences, FiniteSets, TLC

VARIABLES shipments, checklist, upload_log, processed_files, now, last, calls, probe, sessions,
          input_folder

vars ==
  <<shipments, checklist, upload_log, processed_files, now, last, calls, probe, sessions,
    input_folder>>

----------------------------------------------------------------------------
(* Bounds *)

MaxCalls == 3
MaxClock == 1
MaxFaultCalls == 2
MaxHeaders == 3
MaxConfigCalls == 3
MaxRebillCalls == 4

----------------------------------------------------------------------------
(* Values *)

\* pd.to_numeric(..., errors='coerce') gives NaN for a cell that is empty or
\* not a number; NaN is kept apart from every amount of the catalogue.
NaN == -99999

\* a float division by zero gives +inf or -inf (0/0 gives NaN)
PosInf == 99999
NegInf == -99998

\* pd.NaT / None in a date column
NaT == -1

\* an empty cell of a text column, as read back from Excel
NoText == "<NaN>"

\* the clock counts days: datetime.now().date()
Date(t) == t

Carriers == {"Acme", "Dhl"}
Cycles == {"2024-01", "2024-02"}

\* client names in the order sorted() / groupby put them
ClientOrder == <<"Xco", "Yco">>
Clients == {ClientOrder[i] : i \in 1..Len(ClientOrder)}

InvoiceNumbers == {"INV-1", "INV-2"}
InvoiceDates == {NaT, 5}
Notes == {"net30"}

----------------------------------------------------------------------------
(* Raw files.  A cell is a number, a text or empty. *)

Num(n) == [t |-> "num", n |-> n, s |-> ""]
Str(s) == [t |-> "str", n |-> 0, s |-> s]
Empty == [t |-> "nan", n |-> 0, s |-> ""]

IsNull(c) == c.t = "nan"

\* The files of the input folder / the uploads: path, extension, whether the
\* path exists, content hash, header row and data rows.
FileCatalogue ==
  << [path |-> "in/Acme_2024-01.csv", ext |-> "csv", exists |-> TRUE, hash |-> "h1",
      headers |-> <<"Customer", "Total Cost", "Bill Amount", "Tracking ID">>,
      rows |-> << <<Str("Xco"), Num(10), Num(15), Str("T1")>>,
                  <<Str("Xco"), Num(20), Num(25), Str("T2")>>,
                  <<Str("Xco"), Num(0), Num(0), Str("T3")>> >>],
     [path |-> "in/mixed.xlsx", ext |-> "xlsx", exists |-> TRUE, hash |-> "h2",
      headers |-> <<"client", "cost", "billable">>,
      rows |-> << <<Str("Xco"), Num(5), Num(0)>>,
                  <<Str("Yco"), Num(4), Num(7)>>,
                  <<Str("Yco"), Empty, Num(3)>> >>],
     [path |-> "in/nobill.csv", ext |-> "csv", exists |-> TRUE, hash |-> "h3",
      headers |-> <<"client", "cost", "Tracking ID">>,
      rows |-> << <<Str("Xco"), Num(5), Str("T9")>> >>],
     [path |-> "in/blank.csv", ext |-> "csv", exists |-> TRUE, hash |-> "h4",
      headers |-> <<"client", "cost", "billable">>,
      rows |-> << <<Str("Xco"), Num(0), Num(0)>>,
                  <<Str("Yco"), Str("n/a"), Num(7)>> >>],
     [path |-> "in/notes.txt", ext |-> "txt", exists |-> TRUE, hash |-> "h5",
      headers |-> <<"client", "cost", "billable">>,
      rows |-> << <<Str("Xco"), Num(1), Num(2)>> >>],
     [path |-> "in/gone.csv", ext |-> "csv", exists |-> FALSE, hash |-> "h6",
      headers |-> <<>>, rows |-> <<>>] >>

FileIds == 1..Len(FileCatalogue)

\* the calls the model offers: a file and the (carrier, cycle) it is
\* submitted under
Submissions ==
  { [file |-> 1, carrier |-> "Acme", cycle |-> "2024-01"],
    [file |-> 1, carrier |-> "Dhl", cycle |-> "2024-01"],
    [file |-> 2, carrier |-> "Dhl", cycle |-> "2024-01"],
    [file |-> 2, carrier |-> "Acme", cycle |-> "2024-02"],
    [file |-> 3, carrier |-> "Acme", cycle |-> "2024-01"],
    [file |-> 4, carrier |-> "Acme", cycle |-> "2024-01"],
    [file |-> 5, carrier |-> "Acme", cycle |-> "2024-01"],
    [file |-> 6, carrier |-> "Acme", cycle |-> "2024-01"] }

----------------------------------------------------------------------------
(* Sequence helpers *)

RECURSIVE SumSeq(_)
SumSeq(s) == IF s = <<>> THEN 0 ELSE Head(s) + SumSeq(Tail(s))

Count(s, P(_)) == Len(SelectSeq(s, P))

RangeOf(s) == {s[i] : i \in 1..Len(s)}

\* positions of s, in order, that satisfy P
RECURSIVE Positions(_, _, _)
Positions(s, P(_), i) ==
  IF i > Len(s) THEN <<>>
  ELSE IF P(s[i]) THEN <<i>> \o Positions(s, P, i + 1)
       ELSE Positions(s, P, i + 1)

Pick(s, idx) == [k \in 1..Len(idx) |-> s[idx[k]]]

----------------------------------------------------------------------------
(* Reading a file into a frame: [cols: header names, rows: rows of cells] *)

ReadFrame(f) == [cols |-> f.headers, rows |-> f.rows]

ColumnCells(df, j) == [i \in 1..Len(df.rows) |-> df.rows[i][j]]

NullCount(cells) == Count(cells, IsNull)

KeepColumns(df, idx) ==
  [cols |-> Pick(df.cols, idx),
   rows |-> [i \in 1..Len(df.rows) |-> Pick(df.rows[i], idx)]]

\* df.dropna(axis=1, how='all')
DropEmptyColumns(df) ==
  LET Keep(j) == NullCount(ColumnCells(df, j)) < Len(df.rows)
  IN KeepColumns(df, Positions([j \in 1..Len(df.cols) |-> j], Keep, 1))

\* df.dropna(axis=0, how='all')
DropEmptyRows(df) ==
  LET NotAllNull(r) == \E j \in 1..Len(r) : ~IsNull(r[j])
  IN [cols |-> df.cols,
      rows |-> IF Len(df.cols) = 0 THEN <<>> ELSE SelectSeq(df.rows, NotAllNull)]

\* null_percentages < 0.95, as 20 * nulls < 19 * rows
DropMostlyEmptyColumns(df) ==
  LET Keep(j) == /\ Len(df.rows) > 0
                 /\ 20 * NullCount(ColumnCells(df, j)) < 19 * Len(df.rows)
  IN KeepColumns(df, Positions([j \in 1..Len(df.cols) |-> j], Keep, 1))

CleanFrame(df) == DropMostlyEmptyColumns(DropEmptyRows(DropEmptyColumns(df)))

----------------------------------------------------------------------------
(* Column mapper *)

\* col.lower().strip().replace(' ', '').replace('_', '') on the headers of
\* the catalogue; a header written in lower case without blank or
\* underscore is its own clean form.
CleanHeader(h) ==
  CASE h = "Customer" -> "customer"
    [] h = "Total Cost" -> "totalcost"
    [] h = "Bill Amount" -> "billamount"
    [] h = "Tracking ID" -> "trackingid"
    [] h = "billable_amount" -> "billableamount"
    [] h = "tracking_number" -> "trackingnumber"
    [] OTHER -> h

\* the synonym table in declared order, each alias in its clean form
standard_columns ==
  << [name |-> "client",
      variants |-> {"client", "customer", "customername", "account", "consignee",
                    "shipper", "company", "clientname", "accountname"}],
     [name |-> "tracking_number",
      variants |-> {"tracking", "trackingnumber", "trackingid", "awb", "pro",
                    "shipmentid", "reference"}],
     [name |-> "service_type",
      variants |-> {"service", "servicetype", "servicelevel", "shippingservice",
                    "deliveryservice"}],
     [name |-> "cost",
      variants |-> {"cost", "freightcost", "shippingcost", "carriercharge",
                    "totalcost", "carriercost", "transportcost", "deliverycost"}],
     [name |-> "billable_amount",
      variants |-> {"billable", "billableamount", "revenue", "chargeamount",
                    "billamount", "invoiceamount", "totalbillable"}],
     [name |-> "weight",
      variants |-> {"weight", "packageweight", "totalweight", "shipmentweight",
                    "grossweight"}],
     [name |-> "zone",
      variants |-> {"zone", "deliveryzone", "shippingzone", "servicezone"}],
     [name |-> "ship_date",
      variants |-> {"date", "shipdate", "pickupdate", "servicedate",
                    "shipmentdate", "senddate"}],
     [name |-> "delivery_date",
      variants |-> {"deliverydate", "delivereddate", "delivery", "arrivaldate",
                    "completiondate"}] >>

\* index of the first column, in file order, whose clean name is a variant
\* (0 when there is none): the inner loop with its break
FirstMatch(cols, variants) ==
  LET hits == {j \in 1..Len(cols) : CleanHeader(cols[j]) \in variants}
  IN IF hits = {} THEN 0 ELSE CHOOSE j \in hits : \A k \in hits : j <= k

\* the outer loop: column_map[original_col] = standard, a later field
\* overwriting an earlier one on the same header
RECURSIVE BuildColumnMap(_, _, _)
BuildColumnMap(cols, k, map) ==
  IF k > Len(standard_columns) THEN map
  ELSE LET j == FirstMatch(cols, standard_columns[k].variants)
       IN BuildColumnMap(cols, k + 1,
            IF j = 0 THEN map
            ELSE [h \in DOMAIN map \cup {cols[j]} |->
                    IF h = cols[j] THEN standard_columns[k].name ELSE map[h]])

ColumnMap(cols) == BuildColumnMap(cols, 1, [h \in {} |-> ""])

\* df.rename(columns=map)
Rename(df, map) ==
  [cols |-> [j \in 1..Len(df.cols) |->
               IF df.cols[j] \in DOMAIN map THEN map[df.cols[j]] ELSE df.cols[j]],
   rows |-> df.rows]

\* mutant: the tracking number is required too
required_cols_with_tracking == <<"client", "tracking_number", "cost", "billable_amount">>

required_cols == <<"client", "cost", "billable_amount">>

MissingCols(df) ==
  LET Absent(c) == c \notin RangeOf(df.cols) IN SelectSeq(required_cols, Absent)

\* lines 339-344: the test of the required columns on the renamed frame; a
\* failure carries missing_cols and available_cols
verify_required_columns(df) ==
  IF MissingCols(df) # <<>>
  THEN [failed |-> TRUE, missing |-> MissingCols(df), available |-> df.cols]
  ELSE [failed |-> FALSE, missing |-> <<>>, available |-> <<>>]

\* the header rows examined: up to MaxHeaders distinct headers in any order
HeaderPool ==
  {"Customer", "Total Cost", "Bill Amount", "Tracking ID", "client", "billable",
   "weight", "notes"}

HeaderRows ==
  UNION { {h \in [1..n -> HeaderPool] : \A i, j \in 1..n : i # j => h[i] # h[j]} :
          n \in 1..MaxHeaders }

\* a one-row frame with these headers and no empty cell
FrameOf(headers) ==
  [cols |-> headers, rows |-> << [j \in 1..Len(headers) |-> Num(1)] >>]

\* the manual mappings examined: the header 'notes' given to a text field
Overrides == {[h \in {"notes"} |-> "client"], [h \in {"notes"} |-> "tracking_number"]}

\* the files they are applied to: 'notes' among up to MaxHeaders headers, in
\* any order, followed by the two amount columns
OverridePool == {"Customer", "client", "Tracking ID", "notes", "memo"}

OverrideRows ==
  { h \o <<"Total Cost", "Bill Amount">> :
      h \in UNION { {g \in [1..n -> OverridePool] :
                       /\ \A i, j \in 1..n : i # j => g[i] # g[j]
                       /\ \E i \in 1..n : g[i] = "notes"} : n \in 1..MaxHeaders } }

\* the row of such a file: an amount of 7 under the amount headers, under
\* any other header the header's own text
LabelRow(headers) ==
  [j \in 1..Len(headers) |->
     IF headers[j] \in {"Total Cost", "Bill Amount"} THEN Num(7) ELSE Str(headers[j])]

\* clean-up, auto-detection and rename of a frame, as both ingestions do
map_columns(df) ==
  LET cleaned == CleanFrame(df) IN Rename(cleaned, ColumnMap(cleaned.cols))

----------------------------------------------------------------------------
(* Text as a sequence of characters *)

Lowers == <<"a", "b", "c", "d", "e", "f", "g", "h", "i", "j", "k", "l", "m", "n", "o", "p", "q", "r", "s", "t", "u", "v", "w", "x", "y", "z">>
Uppers == <<"A", "B", "C", "D", "E", "F", "G", "H", "I", "J", "K", "L", "M", "N", "O", "P", "Q", "R", "S", "T", "U", "V", "W", "X", "Y", "Z">>
DigitChars == <<"0", "1", "2", "3", "4", "5", "6", "7", "8", "9">>

\* s.find(ch) + 1: the first place of ch in s, 0 when there is none
find(s, ch) ==
  LET hits == {i \in 1..Len(s) : s[i] = ch}
  IN IF hits = {} THEN 0 ELSE CHOOSE i \in hits : \A k \in hits : i <= k

\* s.rfind(ch) + 1
rfind(s, ch) ==
  LET hits == {i \in 1..Len(s) : s[i] = ch}
  IN IF hits = {} THEN 0 ELSE CHOOSE i \in hits : \A k \in hits : i >= k

isalpha(ch) == find(Lowers, ch) > 0 \/ find(Uppers, ch) > 0
isdigit(ch) == find(DigitChars, ch) > 0

lower(ch) == IF find(Uppers, ch) > 0 THEN Lowers[find(Uppers, ch)] ELSE ch
upper(ch) == IF find(Lowers, ch) > 0 THEN Uppers[find(Lowers, ch)] ELSE ch

Lower(s) == [i \in 1..Len(s) |-> lower(s[i])]

AllAlpha(s) == \A i \in 1..Len(s) : isalpha(s[i])
AllDigits(s) == \A i \in 1..Len(s) : isdigit(s[i])

\* str.title(): a letter is upper-cased after a character that is not a
\* letter (or at the start) and lower-cased after a letter
title(s) ==
  [i \in 1..Len(s) |->
     IF ~isalpha(s[i]) THEN s[i]
     ELSE IF i > 1 /\ isalpha(s[i - 1]) THEN lower(s[i]) ELSE upper(s[i])]

\* str.strip()
strip(s) ==
  LET inked == {i \in 1..Len(s) : s[i] # " "}
  IN IF inked = {} THEN <<>>
     ELSE SubSeq(s, CHOOSE i \in inked : \A k \in inked : i <= k,
                    CHOOSE i \in inked : \A k \in inked : i >= k)

\* str.replace(a, b) for single characters
replace(s, a, b) == [i \in 1..Len(s) |-> IF s[i] = a THEN b ELSE s[i]]

\* mutant: the text is split at the last separator (rsplit)
split_last(s, sep) ==
  IF rfind(s, sep) = 0 THEN <<s>>
  ELSE <<SubSeq(s, 1, rfind(s, sep) - 1), SubSeq(s, rfind(s, sep) + 1, Len(s))>>

\* s.split(sep, 1)
split_once(s, sep) ==
  IF find(s, sep) = 0 THEN <<s>>
  ELSE <<SubSeq(s, 1, find(s, sep) - 1), SubSeq(s, find(s, sep) + 1, Len(s))>>

\* Path(filename).stem of a name without directory: the name up to its last
\* dot, when that dot is neither the first nor the last character
stem(filename) ==
  LET i == rfind(filename, ".")
  IN IF i > 1 /\ i < Len(filename) THEN SubSeq(filename, 1, i - 1) ELSE filename

----------------------------------------------------------------------------
(* parse_filename and normalize_cycle_period *)

\* the month names strptime('%B') accepts, in any case
MonthNames ==
  << <<"j", "a", "n", "u", "a", "r", "y">>,
     <<"f", "e", "b", "r", "u", "a", "r", "y">>,
     <<"m", "a", "r", "c", "h">>,
     <<"a", "p", "r", "i", "l">>,
     <<"m", "a", "y">>,
     <<"j", "u", "n", "e">>,
     <<"j", "u", "l", "y">>,
     <<"a", "u", "g", "u", "s", "t">>,
     <<"s", "e", "p", "t", "e", "m", "b", "e", "r">>,
     <<"o", "c", "t", "o", "b", "e", "r">>,
     <<"n", "o", "v", "e", "m", "b", "e", "r">>,
     <<"d", "e", "c", "e", "m", "b", "e", "r">> >>

\* the month with this full name (%B), 0 when strptime raises
FullMonth(name) ==
  LET hits == {m \in 1..Len(MonthNames) : MonthNames[m] = Lower(name)}
  IN IF hits = {} THEN 0 ELSE CHOOSE m \in hits : TRUE

\* the month with this abbreviated name (%b), 0 when strptime raises
AbbrMonth(name) ==
  LET hits == {m \in 1..Len(MonthNames) : SubSeq(MonthNames[m], 1, 3) = Lower(name)}
  IN IF hits = {} THEN 0 ELSE CHOOSE m \in hits : TRUE

\* f"{month_num:02d}"
TwoDigits(n) == <<DigitChars[(n \div 10) + 1], DigitChars[(n % 10) + 1]>>

\* ^\d{4}-\d{2}$
IsYearMonth(s) ==
  /\ Len(s) = 7
  /\ AllDigits(SubSeq(s, 1, 4)) /\ s[5] = "-" /\ AllDigits(SubSeq(s, 6, 7))

\* ^\d{4}-\d{2}-Week\d+$ with re.IGNORECASE
IsYearMonthWeek(s) ==
  /\ Len(s) >= 13
  /\ IsYearMonth(SubSeq(s, 1, 7)) /\ s[8] = "-"
  /\ Lower(SubSeq(s, 9, 12)) = <<"w", "e", "e", "k">>
  /\ AllDigits(SubSeq(s, 13, Len(s)))

normalize_cycle_period(cycle_str) ==
  LET s == strip(cycle_str)
      \* ^([A-Za-z]+)(\d{4})$
      long == Len(s) >= 5 /\ AllAlpha(SubSeq(s, 1, Len(s) - 4))
                          /\ AllDigits(SubSeq(s, Len(s) - 3, Len(s)))
      \* ^([A-Za-z]{3})(\d{2})$
      short == Len(s) = 5 /\ AllAlpha(SubSeq(s, 1, 3)) /\ AllDigits(SubSeq(s, 4, 5))
  IN IF IsYearMonth(s) THEN s
     ELSE IF IsYearMonthWeek(s) THEN s
     ELSE IF long /\ FullMonth(SubSeq(s, 1, Len(s) - 4)) > 0
     THEN SubSeq(s, Len(s) - 3, Len(s)) \o <<"-">>
          \o TwoDigits(FullMonth(SubSeq(s, 1, Len(s) - 4)))
     ELSE IF short /\ AbbrMonth(SubSeq(s, 1, 3)) > 0
     THEN <<"2", "0">> \o SubSeq(s, 4, 5) \o <<"-">> \o TwoDigits(AbbrMonth(SubSeq(s, 1, 3)))
     ELSE s

\* the (None, None) result
NotParsed == [parsed |-> FALSE, carrier |-> <<>>, cycle |-> <<>>]

parse_filename(filename) ==
  LET name_without_ext == stem(filename)
      parts == split_once(name_without_ext, "_")
      hyphen_parts == split_once(name_without_ext, "-")
  IN IF Len(parts) = 2
     THEN [parsed |-> TRUE,
           carrier |-> title(replace(replace(strip(parts[1]), "-", " "), "_", " ")),
           cycle |-> normalize_cycle_period(strip(parts[2]))]
     ELSE IF Len(hyphen_parts) = 2
     THEN [parsed |-> TRUE,
           carrier |-> title(strip(hyphen_parts[1])),
           cycle |-> normalize_cycle_period(strip(hyphen_parts[2]))]
     ELSE NotParsed

\* the file names examined: a carrier token, a separator or none, a cycle
\* token, an extension or none
CarrierTokens ==
  { <<"F", "e", "d", "E", "x">>,
    <<"d", "h", "l">>,
    <<"u", "s", "-", "m", "a", "i", "l">>,
    <<"u", "p", "s", " ">>,
    <<"3", "p", "l">> }

Separators == {<<"_">>, <<"-">>, <<>>}

CycleTokens ==
  { <<"N", "o", "v", "e", "m", "b", "e", "r", "2", "0", "2", "4">>,
    <<"w", "e", "e", "k", "1">>,
    <<"2", "0", "2", "4", "-", "0", "8">>,
    <<"2", "0", "2", "4", "-", "0", "8", "-", "W", "e", "e", "k", "1">>,
    <<"N", "o", "v", "2", "4">>,
    <<"N", "o", "v", "2", "0", "2", "4">>,
    <<"m", "a", "y", "2", "0", "2", "4">>,
    <<>> }

Extensions == {<<".", "x", "l", "s", "x">>, <<".", "c", "s", "v">>, <<>>}

Filenames ==
  {c \o sep \o t \o e : c \in CarrierTokens, sep \in Separators, t \in CycleTokens,
                         e \in Extensions}

----------------------------------------------------------------------------
(* The column mapper on header texts *)

\* str.replace(ch, '')
remove(s, ch) == LET Other(c) == c # ch IN SelectSeq(s, Other)

\* col.lower().strip().replace(' ', '').replace('_', '')
clean_col(col) == remove(remove(strip(Lower(col)), " "), "_")

\* v.lower().replace(' ', '').replace('_', '')
clean_variant(v) == remove(remove(Lower(v), " "), "_")

\* the synonym table of lines 604-643, field by field in declared order, the
\* aliases as written (lines 286-325 list the same aliases; line 625 has
\* '   invoice amount' where line 307 has 'invoice amount')
alias_table ==
  << [name |-> "client",
      variants |->
        { <<"c", "l", "i", "e", "n", "t">>,
          <<"c", "u", "s", "t", "o", "m", "e", "r">>,
          <<"c", "u", "s", "t", "o", "m", "e", "r", "_", "n", "a", "m", "e">>,
          <<"a", "c", "c", "o", "u", "n", "t">>,
          <<"c", "o", "n", "s", "i", "g", "n", "e", "e">>,
          <<"s", "h", "i", "p", "p", "e", "r">>,
          <<"c", "o", "m", "p", "a", "n", "y">>,
          <<"c", "l", "i", "e", "n", "t", "_", "n", "a", "m", "e">>,
          <<"c", "u", "s", "t", "o", "m", "e", "r", " ", "n", "a", "m", "e">>,
          <<"a", "c", "c", "o", "u", "n", "t", " ", "n", "a", "m", "e">> }],
     [name |-> "tracking_number",
      variants |->
        { <<"t", "r", "a", "c", "k", "i", "n", "g">>,
          <<"t", "r", "a", "c", "k", "i", "n", "g", "_", "n", "u", "m", "b", "e", "r">>,
          <<"t", "r", "a", "c", "k", "i", "n", "g", "_", "i", "d">>,
          <<"a", "w", "b">>,
          <<"p", "r", "o">>,
          <<"t", "r", "a", "c", "k", "i", "n", "g", " ", "n", "u", "m", "b", "e", "r">>,
          <<"t", "r", "a", "c", "k", "i", "n", "g", " ", "i", "d">>,
          <<"s", "h", "i", "p", "m", "e", "n", "t", " ", "i", "d">>,
          <<"r", "e", "f", "e", "r", "e", "n", "c", "e">> }],
     [name |-> "service_type",
      variants |->
        { <<"s", "e", "r", "v", "i", "c", "e">>,
          <<"s", "e", "r", "v", "i", "c", "e", "_", "t", "y", "p", "e">>,
          <<"s", "e", "r", "v", "i", "c", "e", "_", "l", "e", "v", "e", "l">>,
          <<"s", "e", "r", "v", "i", "c", "e", " ", "t", "y", "p", "e">>,
          <<"s", "e", "r", "v", "i", "c", "e", " ", "l", "e", "v", "e", "l">>,
          <<"s", "h", "i", "p", "p", "i", "n", "g", " ", "s", "e", "r", "v", "i", "c", "e">>,
          <<"d", "e", "l", "i", "v", "e", "r", "y", " ", "s", "e", "r", "v", "i", "c", "e">> }],
     [name |-> "cost",
      variants |->
        { <<"c", "o", "s", "t">>,
          <<"f", "r", "e", "i", "g", "h", "t", "_", "c", "o", "s", "t">>,
          <<"s", "h", "i", "p", "p", "i", "n", "g", "_", "c", "o", "s", "t">>,
          <<"c", "a", "r", "r", "i", "e", "r", "_", "c", "h", "a", "r", "g", "e">>,
          <<"t", "o", "t", "a", "l", "_", "c", "o", "s", "t">>,
          <<"t", "o", "t", "a", "l", " ", "c", "o", "s", "t">>,
          <<"f", "r", "e", "i", "g", "h", "t", " ", "c", "o", "s", "t">>,
          <<"s", "h", "i", "p", "p", "i", "n", "g", " ", "c", "o", "s", "t">>,
          <<"c", "a", "r", "r", "i", "e", "r", " ", "c", "o", "s", "t">>,
          <<"t", "r", "a", "n", "s", "p", "o", "r", "t", " ", "c", "o", "s", "t">>,
          <<"d", "e", "l", "i", "v", "e", "r", "y", " ", "c", "o", "s", "t">> }],
     [name |-> "billable_amount",
      variants |->
        { <<"b", "i", "l", "l", "a", "b", "l", "e">>,
          <<"b", "i", "l", "l", "a", "b", "l", "e", "_", "a", "m", "o", "u", "n", "t">>,
          <<"r", "e", "v", "e", "n", "u", "e">>,
          <<"c", "h", "a", "r", "g", "e", "_", "a", "m", "o", "u", "n", "t">>,
          <<"b", "i", "l", "l", "_", "a", "m", "o", "u", "n", "t">>,
          <<"i", "n", "v", "o", "i", "c", "e", "_", "a", "m", "o", "u", "n", "t">>,
          <<"b", "i", "l", "l", "a", "b", "l", "e", " ", "a", "m", "o", "u", "n", "t">>,
          <<"b", "i", "l", "l", " ", "a", "m", "o", "u", "n", "t">>,
          <<" ", " ", " ", "i", "n", "v", "o", "i", "c", "e", " ", "a", "m", "o", "u", "n", "t">>,
          <<"c", "h", "a", "r", "g", "e", " ", "a", "m", "o", "u", "n", "t">>,
          <<"t", "o", "t", "a", "l", " ", "b", "i", "l", "l", "a", "b", "l", "e">>,
          <<"t", "o", "t", "a", "l", "_", "b", "i", "l", "l", "a", "b", "l", "e">> }],
     [name |-> "weight",
      variants |->
        { <<"w", "e", "i", "g", "h", "t">>,
          <<"p", "a", "c", "k", "a", "g", "e", "_", "w", "e", "i", "g", "h", "t">>,
          <<"t", "o", "t", "a", "l", "_", "w", "e", "i", "g", "h", "t">>,
          <<"p", "a", "c", "k", "a", "g", "e", " ", "w", "e", "i", "g", "h", "t">>,
          <<"t", "o", "t", "a", "l", " ", "w", "e", "i", "g", "h", "t">>,
          <<"s", "h", "i", "p", "m", "e", "n", "t", " ", "w", "e", "i", "g", "h", "t">>,
          <<"g", "r", "o", "s", "s", " ", "w", "e", "i", "g", "h", "t">> }],
     [name |-> "zone",
      variants |->
        { <<"z", "o", "n", "e">>,
          <<"d", "e", "l", "i", "v", "e", "r", "y", "_", "z", "o", "n", "e">>,
          <<"s", "h", "i", "p", "p", "i", "n", "g", "_", "z", "o", "n", "e">>,
          <<"d", "e", "l", "i", "v", "e", "r", "y", " ", "z", "o", "n", "e">>,
          <<"s", "h", "i", "p", "p", "i", "n", "g", " ", "z", "o", "n", "e">>,
          <<"s", "e", "r", "v", "i", "c", "e", " ", "z", "o", "n", "e">> }],
     [name |-> "ship_date",
      variants |->
        { <<"d", "a", "t", "e">>,
          <<"s", "h", "i", "p", "_", "d", "a", "t", "e">>,
          <<"p", "i", "c", "k", "u", "p", "_", "d", "a", "t", "e">>,
          <<"s", "e", "r", "v", "i", "c", "e", "_", "d", "a", "t", "e">>,
          <<"s", "h", "i", "p", " ", "d", "a", "t", "e">>,
          <<"p", "i", "c", "k", "u", "p", " ", "d", "a", "t", "e">>,
          <<"s", "e", "r", "v", "i", "c", "e", " ", "d", "a", "t", "e">>,
          <<"s", "h", "i", "p", "m", "e", "n", "t", " ", "d", "a", "t", "e">>,
          <<"s", "e", "n", "d", " ", "d", "a", "t", "e">> }],
     [name |-> "delivery_date",
      variants |->
        { <<"d", "e", "l", "i", "v", "e", "r", "y", "_", "d", "a", "t", "e">>,
          <<"d", "e", "l", "i", "v", "e", "r", "e", "d", "_", "d", "a", "t", "e">>,
          <<"d", "e", "l", "i", "v", "e", "r", "y">>,
          <<"d", "e", "l", "i", "v", "e", "r", "y", " ", "d", "a", "t", "e">>,
          <<"d", "e", "l", "i", "v", "e", "r", "e", "d", " ", "d", "a", "t", "e">>,
          <<"a", "r", "r", "i", "v", "a", "l", " ", "d", "a", "t", "e">>,
          <<"c", "o", "m", "p", "l", "e", "t", "i", "o", "n", " ", "d", "a", "t", "e">> }] >>

clean_variants(variants) == {clean_variant(v) : v \in variants}

\* mutant: the loop over the headers has no break, the last match stands
last_match(cols, variants) ==
  LET hits == {j \in 1..Len(cols) : clean_col(cols[j]) \in clean_variants(variants)}
  IN IF hits = {} THEN 0 ELSE CHOOSE j \in hits : \A k \in hits : j >= k

\* the inner loop: the first header, in file order, whose clean form is a
\* clean variant; 0 when there is none
first_match(cols, variants) ==
  LET hits == {j \in 1..Len(cols) : clean_col(cols[j]) \in clean_variants(variants)}
  IN IF hits = {} THEN 0 ELSE CHOOSE j \in hits : \A k \in hits : j <= k

\* the outer loop from field k on: column_map[original_col] = standard
RECURSIVE column_map_from(_, _, _)
column_map_from(cols, k, map) ==
  IF k > Len(alias_table) THEN map
  ELSE LET j == first_match(cols, alias_table[k].variants)
       IN column_map_from(cols, k + 1,
            IF j = 0 THEN map
            ELSE [h \in DOMAIN map \cup {cols[j]} |->
                    IF h = cols[j] THEN alias_table[k].name ELSE map[h]])

column_map(cols) == column_map_from(cols, 1, [h \in {} |-> ""])

\* the header texts examined: up to MaxHeaders distinct ones in any order
TextHeaderPool ==
  { <<"T", "o", "t", "a", "l", " ", "C", "o", "s", "t">>,
    <<"c", "o", "s", "t">>,
    <<" ", "C", "u", "s", "t", "o", "m", "e", "r", "_", "N", "a", "m", "e", " ">>,
    <<"C", "L", "I", "E", "N", "T">>,
    <<"B", "i", "l", "l", " ", "A", "m", "o", "u", "n", "t">>,
    <<"I", "n", "v", "o", "i", "c", "e", "_", "A", "m", "o", "u", "n", "t">>,
    <<"D", "e", "l", "i", "v", "e", "r", "y">>,
    <<"c", "o", "s", "t", "s">> }

TextHeaderRows ==
  UNION { {h \in [1..n -> TextHeaderPool] : \A i, j \in 1..n : i # j => h[i] # h[j]} :
          n \in 1..MaxHeaders }

----------------------------------------------------------------------------
(* Row standardizer *)

\* what row.get returns when several columns carry the name: a Series of
\* their cells
SeriesOfCells == [t |-> "series", n |-> 0, s |-> ""]

\* row.get(name, default): the cell of the column called name
Cell(df, r, name, default) ==
  LET hits == {j \in 1..Len(df.cols) : df.cols[j] = name}
  IN IF hits = {} THEN default
     ELSE IF Cardinality(hits) = 1 THEN r[CHOOSE j \in hits : TRUE]
     ELSE SeriesOfCells

\* str(x).strip(); of a Series it is the print-out of the Series
ToText(c) == CASE c.t = "str" -> c.s
               [] c.t = "nan" -> "nan"
               [] c.t = "series" -> "Series([...])"
               [] OTHER -> "number"

\* pd.to_numeric(x, errors='coerce') of a single cell
ToNumeric(c) == CASE c.t = "num" -> c.n
                  [] c.t \in {"str", "nan"} -> NaN

StandardRow(df, r, carrier_name, cycle_period, file_hash) ==
  [carrier |-> carrier_name,
   client |-> ToText(Cell(df, r, "client", Str(""))),
   tracking_number |-> ToText(Cell(df, r, "tracking_number", Str(""))),
   cost |-> ToNumeric(Cell(df, r, "cost", Num(0))),
   billable_amount |-> ToNumeric(Cell(df, r, "billable_amount", Num(0))),
   invoice_status |-> "Ready to Bill",
   invoice_number |-> "",
   invoice_date |-> NaT,
   cycle_period |-> cycle_period,
   file_hash |-> file_hash]

Standardize(df, carrier_name, cycle_period, file_hash) ==
  [i \in 1..Len(df.rows) |->
     StandardRow(df, df.rows[i], carrier_name, cycle_period, file_hash)]

\* mutant: only the rows with a missing amount are dropped
FilterValid_dropna(rows) ==
  LET HasBoth(r) == r.cost # NaN /\ r.billable_amount # NaN
  IN SelectSeq(rows, HasBoth)

\* mutant: a row is dropped as soon as one of its amounts is 0
FilterValid_either_zero(rows) ==
  LET HasBoth(r) == r.cost # NaN /\ r.billable_amount # NaN
      NoZero(r) == r.cost # 0 /\ r.billable_amount # 0
  IN SelectSeq(SelectSeq(rows, HasBoth), NoZero)

\* dropna(subset=['cost', 'billable_amount']), then (cost != 0) | (billable != 0)
FilterValid(rows) ==
  LET HasBoth(r) == r.cost # NaN /\ r.billable_amount # NaN
      NotBlank(r) == r.cost # 0 \/ r.billable_amount # 0
  IN SelectSeq(SelectSeq(rows, HasBoth), NotBlank)

----------------------------------------------------------------------------
(* The tables *)

\* to_excel followed by read_excel: an empty text comes back as an empty cell
ExcelCell(x) == IF x = "" THEN NoText ELSE x

\* save_shipment_data / load_shipment_data
save_shipment_data(df) ==
  [i \in 1..Len(df) |->
     [df[i] EXCEPT !.tracking_number = ExcelCell(@),
                   !.invoice_number = ExcelCell(@)]]

\* save_billing_checklist / load_billing_checklist
save_billing_checklist(df) ==
  [i \in 1..Len(df) |->
     [df[i] EXCEPT !.invoice_number_sp = ExcelCell(@),
                   !.invoice_number = ExcelCell(@),
                   !.notes = ExcelCell(@)]]

SameCarrierCycle(r, carrier_name, cycle_period) ==
  r.carrier = carrier_name /\ r.cycle_period = cycle_period

SameClientCycle(r, client, cycle_period) ==
  r.client = client /\ r.cycle_period = cycle_period

SameKey(r, client, carrier_name, cycle_period) ==
  r.client = client /\ r.carrier = carrier_name /\ r.cycle_period = cycle_period

\* the rows of a table for / not for a (carrier, cycle) key
OfCarrierCycle(df, carrier_name, cycle_period) ==
  LET Hit(r) == SameCarrierCycle(r, carrier_name, cycle_period) IN SelectSeq(df, Hit)

NotOfCarrierCycle(df, carrier_name, cycle_period) ==
  LET Miss(r) == ~SameCarrierCycle(r, carrier_name, cycle_period) IN SelectSeq(df, Miss)

OfClientCycle(df, client, cycle_period) ==
  LET Hit(r) == SameClientCycle(r, client, cycle_period) IN SelectSeq(df, Hit)

NotOfClientCycle_whole_carrier(df, client, cycle_period) ==
  LET Miss(r) == \A i \in 1..Len(df) :
                   SameClientCycle(df[i], client, cycle_period)
                     => ~SameCarrierCycle(r, df[i].carrier, cycle_period)
  IN SelectSeq(df, Miss)

NotOfClientCycle(df, client, cycle_period) ==
  LET Miss(r) == ~SameClientCycle(r, client, cycle_period) IN SelectSeq(df, Miss)

OfKey(df, client, carrier_name, cycle_period) ==
  LET Hit(r) == SameKey(r, client, carrier_name, cycle_period) IN SelectSeq(df, Hit)

check_existing_data(store, carrier_name, cycle_period) ==
  LET existing_data == OfCarrierCycle(store, carrier_name, cycle_period)
  IN [has |-> existing_data # <<>>, count |-> Len(existing_data)]

\* remove_existing_data: the shipment rows and the checklist rows of the key
\* are dropped; the upload log is not touched
remove_existing_shipments(store, carrier_name, cycle_period) ==
  NotOfCarrierCycle(store, carrier_name, cycle_period)

\* mutant: the checklist rows of the key are left in place
remove_existing_checklist_kept(chk, carrier_name, cycle_period) == chk

remove_existing_checklist(chk, carrier_name, cycle_period) ==
  NotOfCarrierCycle(chk, carrier_name, cycle_period)

----------------------------------------------------------------------------
(* Aggregation *)

\* rint(n / d) for d # 0, ties to even (numpy round)
RoundHalfEven(n, d) ==
  LET nn == IF d < 0 THEN 0 - n ELSE n
      dd == IF d < 0 THEN 0 - d ELSE d
      q == nn \div dd
      r == nn % dd
  IN IF 2 * r < dd THEN q
     ELSE IF 2 * r > dd THEN q + 1
     ELSE IF q % 2 = 0 THEN q ELSE q + 1

\* (profit / total_billable * 100).round(2), in hundredths of a percent
ProfitMargin(profit, total_billable) ==
  IF total_billable = 0
  THEN IF profit > 0 THEN PosInf ELSE IF profit < 0 THEN NegInf ELSE NaN
  ELSE RoundHalfEven(profit * 10000, total_billable)

CarrierOrder == <<"Acme", "Dhl">>
CycleOrder == <<"2024-01", "2024-02">>

\* every (client, carrier, cycle) key, in the sorted order groupby yields
KeyOrder ==
  [n \in 1..(Len(ClientOrder) * Len(CarrierOrder) * Len(CycleOrder)) |->
     LET m == n - 1
         per == Len(CarrierOrder) * Len(CycleOrder)
     IN [client |-> ClientOrder[(m \div per) + 1],
         carrier |-> CarrierOrder[((m % per) \div Len(CycleOrder)) + 1],
         cycle_period |-> CycleOrder[(m % Len(CycleOrder)) + 1]]]

CostOf(df) == SumSeq([i \in 1..Len(df) |-> df[i].cost])
BillableOf(df) == SumSeq([i \in 1..Len(df) |-> df[i].billable_amount])

\* one row of the groupby summary
SummaryRow(k, group) ==
  LET total_cost == CostOf(group)
      total_billable == BillableOf(group)
  IN [client |-> k.client, carrier |-> k.carrier, cycle_period |-> k.cycle_period,
      shipment_count |-> Len(group),
      total_cost |-> total_cost,
      total_billable |-> total_billable,
      profit |-> total_billable - total_cost,
      profit_margin |-> ProfitMargin(total_billable - total_cost, total_billable),
      invoice_status |-> "Ready to Bill",
      invoice_number_sp |-> "",
      invoice_number |-> NoText,
      invoice_date |-> NaT,
      notes |-> ""]

\* new_shipments.groupby(['client', 'carrier', 'cycle_period']).agg(...)
RECURSIVE Summary(_, _)
Summary(new_shipments, n) ==
  IF n > Len(KeyOrder) THEN <<>>
  ELSE LET k == KeyOrder[n]
           group == OfKey(new_shipments, k.client, k.carrier, k.cycle_period)
       IN IF group = <<>> THEN Summary(new_shipments, n + 1)
          ELSE <<SummaryRow(k, group)>> \o Summary(new_shipments, n + 1)

\* mutant: the totals of the entry are overwritten by those of the row
AddToEntry_overwrite(first, e, row) ==
  [e EXCEPT !.shipment_count = row.shipment_count,
            !.total_cost = row.total_cost,
            !.total_billable = row.total_billable,
            !.profit = row.total_billable - row.total_cost,
            !.profit_margin = ProfitMargin(row.total_billable - row.total_cost,
                                           row.total_billable)]

\* mutant: the totals are added to, the derived fields are not recomputed
AddToEntry_stale(first, e, row) ==
  [e EXCEPT !.shipment_count = first.shipment_count + row.shipment_count,
            !.total_cost = first.total_cost + row.total_cost,
            !.total_billable = first.total_billable + row.total_billable]

\* the else branch of the loop: add the row to the totals of the entry
AddToEntry(first, e, row) ==
  LET shipment_count == first.shipment_count + row.shipment_count
      total_cost == first.total_cost + row.total_cost
      total_billable == first.total_billable + row.total_billable
  IN [e EXCEPT !.shipment_count = shipment_count,
               !.total_cost = total_cost,
               !.total_billable = total_billable,
               !.profit = total_billable - total_cost,
               !.profit_margin = ProfitMargin(total_billable - total_cost, total_billable)]

\* mutant: the entries of the row's client and cycle, whatever their
\* carrier, take the status of the row
MergeRow_by_client(existing_checklist, row) ==
  LET hits == OfKey(existing_checklist, row.client, row.carrier, row.cycle_period)
      reset == [i \in 1..Len(existing_checklist) |->
                  IF SameClientCycle(existing_checklist[i], row.client, row.cycle_period)
                  THEN [existing_checklist[i] EXCEPT !.invoice_status = row.invoice_status]
                  ELSE existing_checklist[i]]
  IN IF hits = <<>> THEN Append(reset, row) ELSE reset

\* one iteration of "for _, row in summary.iterrows()"
MergeRow(existing_checklist, row) ==
  LET hits == OfKey(existing_checklist, row.client, row.carrier, row.cycle_period)
  IN IF hits = <<>> THEN Append(existing_checklist, row)
     ELSE [i \in 1..Len(existing_checklist) |->
             IF SameKey(existing_checklist[i], row.client, row.carrier, row.cycle_period)
             THEN AddToEntry(hits[1], existing_checklist[i], row)
             ELSE existing_checklist[i]]

RECURSIVE MergeRows(_, _)
MergeRows(existing_checklist, summary) ==
  IF summary = <<>> THEN existing_checklist
  ELSE MergeRows(MergeRow(existing_checklist, Head(summary)), Tail(summary))

update_billing_checklist(existing_checklist, new_shipments) ==
  save_billing_checklist(MergeRows(existing_checklist, Summary(new_shipments, 1)))

\* number of summary rows that meet an existing entry
AddedCount(existing_checklist, new_shipments) ==
  LET summary == Summary(new_shipments, 1)
      Meets(row) == OfKey(existing_checklist, row.client, row.carrier, row.cycle_period) # <<>>
  IN Count(summary, Meets)

\* mutant: any(x == 'Billed')
AnyBilled(group) == \E i \in 1..Len(group) : group[i].invoice_status = "Billed"

\* all(x == 'Billed')
RECURSIVE AllBilled(_)
AllBilled(group) ==
  IF group = <<>> THEN TRUE
  ELSE IF Head(group).invoice_status # "Billed" THEN FALSE
  ELSE AllBilled(Tail(group))

CountOf(df) == SumSeq([i \in 1..Len(df) |-> df[i].shipment_count])
TotalCostOf(df) == SumSeq([i \in 1..Len(df) |-> df[i].total_cost])
TotalBillableOf(df) == SumSeq([i \in 1..Len(df) |-> df[i].total_billable])

\* groupby(['client', 'cycle_period']) in sorted key order
RECURSIVE ClientGroups(_, _, _)
ClientGroups(chk, i, j) ==
  IF i > Len(ClientOrder) THEN <<>>
  ELSE IF j > Len(CycleOrder) THEN ClientGroups(chk, i + 1, 1)
  ELSE LET group == OfClientCycle(chk, ClientOrder[i], CycleOrder[j])
       IN IF group = <<>> THEN ClientGroups(chk, i, j + 1)
          ELSE << [client |-> ClientOrder[i], cycle_period |-> CycleOrder[j],
                   shipment_count |-> CountOf(group),
                   total_cost |-> TotalCostOf(group),
                   total_billable |-> TotalBillableOf(group),
                   invoice_status |-> IF AllBilled(group) THEN "Billed" ELSE "Ready to Bill",
                   profit |-> TotalBillableOf(group) - TotalCostOf(group),
                   profit_margin |-> ProfitMargin(TotalBillableOf(group) - TotalCostOf(group),
                                                  TotalBillableOf(group))] >>
               \o ClientGroups(chk, i, j + 1)

\* get_client_summary(cycle_period); NoText stands for no filter.  The rows
\* are given in group order (the final sort_values only reorders them).
get_client_summary(chk, cycle_period) ==
  LET InCycle(r) == r.cycle_period = cycle_period
      filtered == IF cycle_period = NoText THEN chk ELSE SelectSeq(chk, InCycle)
  IN ClientGroups(filtered, 1, 1)

----------------------------------------------------------------------------
(* Ingestion *)

IngestOps == {"process_file_from_path", "process_carrier_file"}

\* the outcome of one ingestion call: the returned flag, the kind of
\* message, and the three tables as the call leaves them
Outcome(ok, err, s, c, l, existing_count, initial_count, final_count, added) ==
  [ok |-> ok, err |-> err, shipments |-> s, checklist |-> c, upload_log |-> l,
   existing_count |-> existing_count, initial_count |-> initial_count,
   final_count |-> final_count, added |-> added, fault |-> "none", unread |-> "none"]

\* A write of a table or of the configuration can raise (the workbook is
\* open elsewhere, the disk is full).  A fault names the write that raises
\* if the call reaches it; NoFault: every write succeeds.
NoFault == "none"

Faults ==
  {NoFault, "remove_shipments", "remove_checklist", "save_shipments",
   "save_upload_log", "save_checklist", "save_config", "unlink_shipments"}

\* load_shipment_data, load_billing_checklist and load_upload_log return an
\* empty frame without columns when read_excel raises (the workbook is
\* damaged or locked).  A read fault names the table every load of the call
\* fails to read.
ReadFaults == {"read_shipments", "read_checklist", "read_upload_log"}

\* what a load of the table returns during a call with this fault
Loaded(table, fault, read_fault) == IF fault = read_fault THEN <<>> ELSE table

\* "except Exception": the call returns (False, "Error processing file: ...")
\* with the tables as the writes before the fault left them
Caught(step, s, c, l, existing_count, initial_count, final_count) ==
  [Outcome(FALSE, "exception", s, c, l, existing_count, initial_count, final_count, 0)
     EXCEPT !.fault = step]

\* the outcome of an ingestion with the unreadable table, when the call
\* loaded it: the shipment table once the file is there, the checklist when
\* rows are removed or the checklist is updated, the log before the append
WithUnread(out, fault, loads_shipments, removing) ==
  [out EXCEPT !.unread =
     IF fault = "read_shipments" /\ loads_shipments THEN fault
     ELSE IF fault = "read_checklist" /\ (removing \/ out.fault = fault) THEN fault
     ELSE IF fault = "read_upload_log" /\ out.ok THEN fault
     ELSE NoFault]

new_log_entry_with_path(f, carrier_name, cycle_period, final_count, source_path) ==
  [filename |-> f.path, file_hash |-> f.hash,
   records_imported |-> final_count, carrier |-> carrier_name,
   cycle_period |-> cycle_period, status |-> "Active", deleted_date |-> NaT,
   source_path |-> f.path]

new_log_entry(f, carrier_name, cycle_period, final_count, source_path) ==
  [filename |-> f.path, file_hash |-> f.hash,
   records_imported |-> final_count, carrier |-> carrier_name,
   cycle_period |-> cycle_period, status |-> "Active", deleted_date |-> NaT,
   source_path |-> source_path]

NoMapping == [h \in {} |-> ""]

ManualMappings == {NoMapping}

\* file -> cleaned frame -> optional manual rename -> auto-detected rename
MappedFrame(f, column_mapping) ==
  LET cleaned == CleanFrame(ReadFrame(f))
      manual == Rename(cleaned, column_mapping)
  IN Rename(manual, ColumnMap(manual.cols))

\* the mapped frame of every file of the catalogue under every manual mapping
Frames == [fid \in FileIds, m \in ManualMappings |-> MappedFrame(FileCatalogue[fid], m)]

\* the canonical columns the model keeps
STANDARD_COLUMNS ==
  {"carrier", "client", "tracking_number", "cost", "billable_amount",
   "invoice_status", "invoice_number", "invoice_date", "cycle_period", "file_hash"}

\* lines 397-406: a stored row forced into the canonical columns, a column
\* the table lacks filled with NaT, 0 or ''
existing_standardized(existing_shipments) ==
  [i \in 1..Len(existing_shipments) |->
     [col \in STANDARD_COLUMNS |->
        IF col \in DOMAIN existing_shipments[i] THEN existing_shipments[i][col]
        ELSE IF col = "invoice_date" THEN NaT
        ELSE IF col \in {"cost", "billable_amount"} THEN 0
        ELSE ""]]

\* A shipment workbook written by an older version lacks some of the
\* canonical columns.  The stores examined: one or two records of
\* (Dhl, 2024-02) without the columns of a set of absent ones.
StoredRecords ==
  << [carrier |-> "Dhl", client |-> "Yco", tracking_number |-> "T7", cost |-> 4,
      billable_amount |-> 7, invoice_status |-> "Billed", invoice_number |-> "INV-1",
      invoice_date |-> 5, cycle_period |-> "2024-02", file_hash |-> "h2"],
     [carrier |-> "Dhl", client |-> "Xco", tracking_number |-> "T8", cost |-> 5,
      billable_amount |-> 0, invoice_status |-> "Ready to Bill", invoice_number |-> NoText,
      invoice_date |-> NaT, cycle_period |-> "2024-02", file_hash |-> "h2"] >>

AbsentColumns ==
  SUBSET {"tracking_number", "billable_amount", "invoice_number", "invoice_date", "file_hash"}

OlderStores ==
  { [i \in 1..n |-> [col \in STANDARD_COLUMNS \ absent |-> StoredRecords[i][col]]] :
      n \in 1..Len(StoredRecords), absent \in AbsentColumns }

\* process_file_from_path, lines 391-410: the stored rows followed by the batch
CombinePath(existing_shipments, standardized_df) ==
  IF existing_shipments # <<>>
  THEN existing_standardized(existing_shipments) \o standardized_df
  ELSE standardized_df

\* process_file_from_path, lines 232-461: the checks and writes in the order
\* of the code; the first that fails ends the call with the tables as the
\* writes before it left them
path_outcome(f, ex, removing, replace_existing, fault, s1, c1, missing, initial_count, valid, s2, l2, c2, added) ==
  IF ~f.exists
  THEN Outcome(FALSE, "file_not_found", shipments, checklist, upload_log, 0, 0, 0, 0)
  ELSE IF ex.has /\ ~replace_existing
  THEN Outcome(FALSE, "data_exists", shipments, checklist, upload_log, ex.count, 0, 0, 0)
  ELSE IF removing /\ fault = "remove_shipments"
  THEN Caught(fault, shipments, checklist, upload_log, ex.count, 0, 0)
  ELSE IF removing /\ checklist # <<>> /\ fault = "remove_checklist"
  THEN Caught(fault, s1, checklist, upload_log, ex.count, 0, 0)
  ELSE IF f.ext \notin {"xlsx", "xls", "csv"}
  THEN Outcome(FALSE, "unsupported_format", s1, c1, upload_log, ex.count, 0, 0, 0)
  ELSE IF missing
  THEN Outcome(FALSE, "missing_columns", s1, c1, upload_log, ex.count, 0, 0, 0)
  ELSE IF valid = <<>>
  THEN Outcome(FALSE, "no_valid_records", s1, c1, upload_log, ex.count,
               initial_count, 0, 0)
  ELSE IF fault = "save_shipments"
  THEN Caught(fault, s1, c1, upload_log, ex.count, initial_count, Len(valid))
  ELSE IF fault = "save_upload_log"
  THEN Caught(fault, s2, c1, upload_log, ex.count, initial_count, Len(valid))
  \* line 822: existing_checklist['client'] on a frame without columns
  ELSE IF fault \in {"read_checklist", "save_checklist"}
  THEN Caught(fault, s2, c1, l2, ex.count, initial_count, Len(valid))
  ELSE IF fault = "save_config" /\ f.path \notin RangeOf(processed_files)
  THEN Caught(fault, s2, c2, l2, ex.count, initial_count, Len(valid))
  ELSE Outcome(TRUE, "none", s2, c2, l2,
               ex.count, initial_count, Len(valid), added)

process_file_from_path_result(fid, carrier_name, cycle_period, replace_existing, fault) ==
  LET f == FileCatalogue[fid]
      ex == check_existing_data(Loaded(shipments, fault, "read_shipments"),
                                carrier_name, cycle_period)
      removing == replace_existing /\ ex.has
      s1 == IF removing
            THEN remove_existing_shipments(shipments, carrier_name, cycle_period)
            ELSE shipments
      \* remove_existing_data saves the checklist only when it loaded rows
      c1 == IF removing /\ fault # "read_checklist"
            THEN remove_existing_checklist(checklist, carrier_name, cycle_period)
            ELSE checklist
      df == Frames[fid, NoMapping]
      standardized == Standardize(df, carrier_name, cycle_period, f.hash)
      valid == FilterValid(standardized)
      s2 == save_shipment_data(CombinePath(Loaded(s1, fault, "read_shipments"), valid))
      l2 == Append(Loaded(upload_log, fault, "read_upload_log"),
                   new_log_entry(f, carrier_name, cycle_period, Len(valid), f.path))
      c2 == update_billing_checklist(c1, valid)
  IN WithUnread(path_outcome(f, ex, removing, replace_existing, fault, s1, c1,
                 MissingCols(df) # <<>>, Len(standardized), valid, s2, l2, c2,
                 AddedCount(c1, valid)),
                fault, f.exists, removing)

\* process_carrier_file, lines 719-744: the schema loop stands outside the
\* "if not existing_shipments.empty" block and the else belongs to the for
\* statement.  With an empty store existing_standardized is unbound and the
\* loop raises; otherwise the loop ends without break and its else clause
\* sets combined_shipments to the batch alone.
CombineCarrier(existing_shipments, standardized_df) ==
  IF existing_shipments = <<>> THEN [raised |-> TRUE, df |-> <<>>]
  ELSE [raised |-> FALSE, df |-> standardized_df]

\* process_carrier_file, lines 552-792, likewise
carrier_outcome(f, ex, removing, replace_existing, fault, s1, c1, missing, initial_count, valid, s2, l2, c2, added, raised) ==
  IF ex.has /\ ~replace_existing
  THEN Outcome(FALSE, "data_exists", shipments, checklist, upload_log, ex.count, 0, 0, 0)
  ELSE IF removing /\ fault = "remove_shipments"
  THEN Caught(fault, shipments, checklist, upload_log, ex.count, 0, 0)
  ELSE IF removing /\ checklist # <<>> /\ fault = "remove_checklist"
  THEN Caught(fault, s1, checklist, upload_log, ex.count, 0, 0)
  ELSE IF f.ext \notin {"xlsx", "csv"}
  THEN Outcome(FALSE, "unsupported_format", s1, c1, upload_log, ex.count, 0, 0, 0)
  ELSE IF missing
  THEN Outcome(FALSE, "missing_columns", s1, c1, upload_log, ex.count, 0, 0, 0)
  ELSE IF valid = <<>>
  THEN Outcome(FALSE, "no_valid_records", s1, c1, upload_log, ex.count,
               initial_count, 0, 0)
  ELSE IF raised
  THEN Outcome(FALSE, "exception", s1, c1, upload_log, ex.count,
               initial_count, Len(valid), 0)
  ELSE IF fault = "save_shipments"
  THEN Caught(fault, s1, c1, upload_log, ex.count, initial_count, Len(valid))
  ELSE IF fault = "save_upload_log"
  THEN Caught(fault, s2, c1, upload_log, ex.count, initial_count, Len(valid))
  ELSE IF fault \in {"read_checklist", "save_checklist"}
  THEN Caught(fault, s2, c1, l2, ex.count, initial_count, Len(valid))
  ELSE Outcome(TRUE, "none", s2, c2, l2,
               ex.count, initial_count, Len(valid), added)

process_carrier_file_result(fid, carrier_name, cycle_period, column_mapping, replace_existing, fault) ==
  LET f == FileCatalogue[fid]
      ex == check_existing_data(Loaded(shipments, fault, "read_shipments"),
                                carrier_name, cycle_period)
      removing == replace_existing /\ ex.has
      s1 == IF removing
            THEN remove_existing_shipments(shipments, carrier_name, cycle_period)
            ELSE shipments
      c1 == IF removing /\ fault # "read_checklist"
            THEN remove_existing_checklist(checklist, carrier_name, cycle_period)
            ELSE checklist
      df == Frames[fid, column_mapping]
      standardized == Standardize(df, carrier_name, cycle_period, f.hash)
      valid == FilterValid(standardized)
      combined == CombineCarrier(Loaded(s1, fault, "read_shipments"), valid)
      s2 == save_shipment_data(combined.df)
      l2 == Append(Loaded(upload_log, fault, "read_upload_log"),
                   new_log_entry(f, carrier_name, cycle_period, Len(valid), NoText))
      c2 == update_billing_checklist(c1, valid)
  IN WithUnread(carrier_outcome(f, ex, removing, replace_existing, fault, s1, c1,
                 MissingCols(df) # <<>>, Len(standardized), valid, s2, l2, c2,
                 AddedCount(c1, valid), combined.raised),
                fault, TRUE, removing)

----------------------------------------------------------------------------
(* The record of the last call: operation, arguments and result *)

\* load_config, line 62: no input folder is configured
NoFolder == ""

\* no second session is at work
NoSessions == <<>>

\* no function has been examined
NoProbe == [op |-> "none", input |-> <<>>, done |-> FALSE, result |-> <<>>]

NoCall ==
  [op |-> "none", carrier |-> NoText, cycle |-> NoText, client |-> NoText,
   replace |-> FALSE, file |-> 0, inv |-> NoText, date |-> NaT, notes |-> NoText,
   code |-> NoText,
   ok |-> TRUE, err |-> "none", existing_count |-> 0, initial_count |-> 0,
   final_count |-> 0, added |-> 0, repeat |-> FALSE,
   fault |-> NoFault, unread |-> NoFault, returned |-> TRUE]

Args(c) ==
  <<c.op, c.carrier, c.cycle, c.client, c.replace, c.file, c.inv, c.date, c.notes, c.code>>

\* the record of call c, marked as a repeat when the call before it had the
\* same operation and arguments
Called(c) == [c EXCEPT !.repeat = (Args(c) = Args(last))]

\* one more call is made
Call == calls' = calls + 1

IngestCall(op, fid, carrier_name, cycle_period, replace_existing, out) ==
  Called([NoCall EXCEPT !.op = op, !.file = fid, !.carrier = carrier_name,
                        !.cycle = cycle_period, !.replace = replace_existing,
                        !.ok = out.ok, !.err = out.err,
                        !.existing_count = out.existing_count,
                        !.initial_count = out.initial_count,
                        !.final_count = out.final_count,
                        !.added = out.added,
                        !.fault = out.fault, !.unread = out.unread])

\* the result of a call without try/except that a write fault ends: the
\* exception leaves the operation, nothing is returned
Escaped(c, step) ==
  IF step = NoFault THEN c
  ELSE [c EXCEPT !.ok = FALSE, !.err = "exception", !.fault = step, !.returned = FALSE]

\* the result of a deletion that a write fault ends inside its try block
Failed(c, step) ==
  IF step = NoFault THEN c
  ELSE [c EXCEPT !.ok = FALSE, !.err = "exception", !.fault = step]

----------------------------------------------------------------------------
(* Operations.  A call is one step that leaves the clock alone; the clock  *)
(* moves between calls (Tick).  The last argument of an operation is the   *)
(* write that raises during the call, NoFault when none does.              *)

\* the step of an ingestion with outcome out; lines 444-448: the path is
\* appended to the list in memory before save_config writes it
IngestStep(op, fid, carrier_name, cycle_period, replace_existing, out, lists) ==
  /\ shipments' = out.shipments
  /\ checklist' = out.checklist
  /\ upload_log' = out.upload_log
  /\ processed_files' =
       IF /\ lists
          /\ out.ok \/ out.fault = "save_config"
          /\ FileCatalogue[fid].path \notin RangeOf(processed_files)
       THEN Append(processed_files, FileCatalogue[fid].path)
       ELSE processed_files
  /\ last' = IngestCall(op, fid, carrier_name, cycle_period, replace_existing, out)

process_file_from_path(fid, carrier_name, cycle_period, replace_existing, fault) ==
  /\ Call
  /\ IngestStep("process_file_from_path", fid, carrier_name, cycle_period, replace_existing,
                process_file_from_path_result(fid, carrier_name, cycle_period,
                                              replace_existing, fault),
                TRUE)
  /\ UNCHANGED <<now, probe, sessions, input_folder>>

process_carrier_file(fid, carrier_name, cycle_period, column_mapping, replace_existing, fault) ==
  /\ Call
  /\ IngestStep("process_carrier_file", fid, carrier_name, cycle_period, replace_existing,
                process_carrier_file_result(fid, carrier_name, cycle_period,
                                            column_mapping, replace_existing, fault),
                FALSE)
  /\ UNCHANGED <<now, probe, sessions, input_folder>>

\* the table of the call's read fault, when the operation loads it
Unread(fault, loads) == IF fault \in loads THEN fault ELSE NoFault

\* mutant: the given invoice date is ignored
billed_date_today(invoice_date, t) == Date(t)

\* mark_client_billed: NaT stands for an omitted invoice_date
billed_date(invoice_date, t) == IF invoice_date = NaT THEN Date(t) ELSE invoice_date

bill_checklist(chk, client, cycle_period, invoice_number, invoice_date, notes, t) ==
  IF OfClientCycle(chk, client, cycle_period) = <<>> THEN chk
  ELSE save_billing_checklist(
         [i \in 1..Len(chk) |->
            IF SameClientCycle(chk[i], client, cycle_period)
            THEN [chk[i] EXCEPT !.invoice_status = "Billed",
                                !.invoice_number = invoice_number,
                                !.invoice_date = billed_date(invoice_date, t),
                                !.notes = notes]
            ELSE chk[i]])

\* mutant: the shipment rows are not updated
bill_shipments_skipped(store, client, cycle_period, invoice_number, invoice_date, t) ==
  store

bill_shipments(store, client, cycle_period, invoice_number, invoice_date, t) ==
  IF OfClientCycle(store, client, cycle_period) = <<>> THEN store
  ELSE save_shipment_data(
         [i \in 1..Len(store) |->
            IF SameClientCycle(store[i], client, cycle_period)
            THEN [store[i] EXCEPT !.invoice_status = "Billed",
                                  !.invoice_number = invoice_number,
                                  !.invoice_date = billed_date(invoice_date, t)]
            ELSE store[i]])

\* mark_client_billed has no try/except: a table is saved only when it has
\* rows of the (client, cycle), the checklist first
mark_client_billed(client, cycle_period, invoice_number, invoice_date, notes, fault) ==
  /\ Call
  /\ LET \* lines 928, 940: checklist['client'] on a frame without columns
         raised ==
           IF fault = "read_checklist" THEN fault
           ELSE IF fault = "save_checklist"
                   /\ OfClientCycle(checklist, client, cycle_period) # <<>> THEN fault
           ELSE IF fault = "read_shipments" THEN fault
           ELSE IF fault = "save_shipments"
                   /\ OfClientCycle(shipments, client, cycle_period) # <<>> THEN fault
           ELSE NoFault
     IN /\ checklist' =
             IF raised \in {"read_checklist", "save_checklist"} THEN checklist
             ELSE bill_checklist(checklist, client, cycle_period, invoice_number,
                                 invoice_date, notes, now)
        /\ shipments' =
             IF raised # NoFault THEN shipments
             ELSE bill_shipments(shipments, client, cycle_period, invoice_number,
                                 invoice_date, now)
        /\ last' = Called(Escaped(
                     [NoCall EXCEPT !.op = "mark_client_billed", !.client = client,
                                    !.cycle = cycle_period, !.inv = invoice_number,
                                    !.date = invoice_date, !.notes = notes,
                                    !.unread = Unread(fault, {"read_checklist", "read_shipments"})],
                     raised))
  /\ UNCHANGED <<upload_log, processed_files, now, probe, sessions, input_folder>>

\* delete_carrier_data: every log entry of the key, whatever its status, is
\* set to Deleted with the current time
flip_log_all(log, carrier_name, cycle_period, t) ==
  [i \in 1..Len(log) |-> [log[i] EXCEPT !.status = "Deleted", !.deleted_date = t]]

flip_log(log, carrier_name, cycle_period, t) ==
  [i \in 1..Len(log) |->
     IF SameCarrierCycle(log[i], carrier_name, cycle_period)
     THEN [log[i] EXCEPT !.status = "Deleted", !.deleted_date = t]
     ELSE log[i]]

\* the write of a deletion that raises: a table is saved only when it has
\* rows; a table that cannot be read is taken for empty and left alone
DeleteFault(fault, with_log) ==
  IF fault = "save_shipments" /\ shipments # <<>> THEN fault
  ELSE IF fault = "save_checklist" /\ checklist # <<>> THEN fault
  ELSE IF fault = "save_upload_log" /\ with_log /\ upload_log # <<>> THEN fault
  ELSE NoFault

delete_carrier_data(carrier_name, cycle_period, fault) ==
  /\ Call
  /\ LET raised == DeleteFault(fault, TRUE)
     IN /\ shipments' =
             IF raised = "save_shipments" \/ fault = "read_shipments" THEN shipments
             ELSE NotOfCarrierCycle(shipments, carrier_name, cycle_period)
        /\ checklist' =
             IF raised \in {"save_shipments", "save_checklist"} \/ fault = "read_checklist"
             THEN checklist
             ELSE NotOfCarrierCycle(checklist, carrier_name, cycle_period)
        /\ upload_log' =
             IF raised # NoFault \/ fault = "read_upload_log" THEN upload_log
             ELSE flip_log(upload_log, carrier_name, cycle_period, now)
        /\ last' = Called(Failed(
                     [NoCall EXCEPT !.op = "delete_carrier_data",
                                    !.carrier = carrier_name, !.cycle = cycle_period,
                                    !.unread = Unread(fault, ReadFaults)],
                     raised))
  /\ UNCHANGED <<processed_files, now, probe, sessions, input_folder>>

delete_client_cycle(client_name, cycle_period, fault) ==
  /\ Call
  /\ LET raised == DeleteFault(fault, FALSE)
     IN /\ shipments' =
             IF raised = "save_shipments" \/ fault = "read_shipments" THEN shipments
             ELSE NotOfClientCycle(shipments, client_name, cycle_period)
        /\ checklist' =
             IF raised # NoFault \/ fault = "read_checklist" THEN checklist
             ELSE NotOfClientCycle(checklist, client_name, cycle_period)
        /\ last' = Called(Failed(
                     [NoCall EXCEPT !.op = "delete_client_cycle",
                                    !.client = client_name, !.cycle = cycle_period,
                                    !.unread = Unread(fault, {"read_shipments", "read_checklist"})],
                     raised))
  /\ UNCHANGED <<upload_log, processed_files, now, probe, sessions, input_folder>>

ConfirmationCodes == {"DELETE_ALL_BILLING_DATA", "delete"}

\* clear_all_data: the three workbooks are unlinked and created again empty,
\* the processed-files list is emptied.  Of its steps the first unlink is the
\* one the model lets fail: the call then returns with nothing changed.
\* mutant: the code is compared without regard to case
valid_code_any_case(confirmation_code) ==
  confirmation_code \in {"DELETE_ALL_BILLING_DATA", "delete_all_billing_data"}

\* line 1081: confirmation_code != "DELETE_ALL_BILLING_DATA"
valid_code(confirmation_code) == confirmation_code = "DELETE_ALL_BILLING_DATA"

clear_all_data(confirmation_code, fault) ==
  /\ Call
  /\ LET c == [NoCall EXCEPT !.op = "clear_all_data", !.code = confirmation_code]
         valid == valid_code(confirmation_code)
         raised == IF valid /\ fault = "unlink_shipments" THEN fault ELSE NoFault
         cleared == valid /\ raised = NoFault
     IN /\ shipments' = IF cleared THEN <<>> ELSE shipments
        /\ checklist' = IF cleared THEN <<>> ELSE checklist
        /\ upload_log' = IF cleared THEN <<>> ELSE upload_log
        /\ processed_files' = IF cleared THEN <<>> ELSE processed_files
        /\ last' = Called(Failed(
                     IF valid THEN c ELSE [c EXCEPT !.ok = FALSE, !.err = "invalid_code"],
                     raised))
  /\ UNCHANGED <<now, probe, sessions, input_folder>>

\* the write of the configuration that raises, without try/except around it
ConfigFaults == {NoFault, "save_config"}

\* set_input_folder, lines 85-88: the folder is set in memory, then written
set_input_folder(folder_path, fault) ==
  /\ Call
  /\ input_folder' = folder_path
  /\ last' = Called(Escaped([NoCall EXCEPT !.op = "set_input_folder"], fault))
  /\ UNCHANGED <<shipments, checklist, upload_log, processed_files, now, probe, sessions>>

\* mark_file_as_processed, lines 463-469: the path of file fid is appended
\* unless the list has it; save_config is called only after an append
mark_file_as_processed(fid, fault) ==
  /\ Call
  /\ LET file_path == FileCatalogue[fid].path
         absent == file_path \notin RangeOf(processed_files)
     IN /\ processed_files' = IF absent THEN Append(processed_files, file_path)
                               ELSE processed_files
        /\ last' = Called(Escaped([NoCall EXCEPT !.op = "mark_file_as_processed",
                                                 !.file = fid],
                                  IF absent THEN fault ELSE NoFault))
  /\ UNCHANGED <<shipments, checklist, upload_log, now, probe, sessions, input_folder>>

\* list.remove(x): the first occurrence is removed
RECURSIVE remove_first(_, _)
remove_first(list, x) ==
  IF list = <<>> THEN <<>>
  ELSE IF Head(list) = x THEN Tail(list)
  ELSE <<Head(list)>> \o remove_first(Tail(list), x)

\* unmark_file_as_processed, lines 471-478: the path is removed and the
\* configuration written; a path the list does not have raises ValueError,
\* which is passed over
unmark_file_as_processed(fid, fault) ==
  /\ Call
  /\ LET file_path == FileCatalogue[fid].path
         present == file_path \in RangeOf(processed_files)
     IN /\ processed_files' = remove_first(processed_files, file_path)
        /\ last' = Called(Escaped([NoCall EXCEPT !.op = "unmark_file_as_processed",
                                                 !.file = fid],
                                  IF present THEN fault ELSE NoFault))
  /\ UNCHANGED <<shipments, checklist, upload_log, now, probe, sessions, input_folder>>

\* a day passes: datetime.now() of the next call is later
Tick ==
  /\ now < MaxClock
  /\ now' = now + 1
  /\ UNCHANGED <<shipments, checklist, upload_log, processed_files, last, calls, probe, sessions, input_folder>>

----------------------------------------------------------------------------
(* Specification *)

\* st.file_uploader hands over an uploaded file: its content exists
Uploads == {sub \in Submissions : FileCatalogue[sub.file].exists}

\* init_excel_files on a new data folder: three empty tables; load_config
\* with no config file: no processed file
Init ==
  /\ shipments = <<>>
  /\ checklist = <<>>
  /\ upload_log = <<>>
  /\ processed_files = <<>>
  /\ now = 0
  /\ last = NoCall
  /\ calls = 0
  /\ input_folder = NoFolder
  /\ probe = NoProbe
  /\ sessions = NoSessions

\* the calls of the user interface, every write succeeding
Next ==
  \/ \E sub \in Submissions, rep \in BOOLEAN :
       /\ calls < MaxCalls
       /\ process_file_from_path(sub.file, sub.carrier, sub.cycle, rep, NoFault)
  \/ \E sub \in Uploads, m \in ManualMappings, rep \in BOOLEAN :
       /\ calls < MaxCalls
       /\ process_carrier_file(sub.file, sub.carrier, sub.cycle, m, rep, NoFault)
  \/ \E cl \in Clients, cy \in Cycles, inv \in InvoiceNumbers, d \in InvoiceDates,
        n \in Notes :
       /\ calls < MaxCalls
       /\ mark_client_billed(cl, cy, inv, d, n, NoFault)
  \/ \E ca \in Carriers, cy \in Cycles :
       /\ calls < MaxCalls
       /\ delete_carrier_data(ca, cy, NoFault)
  \/ \E cl \in Clients, cy \in Cycles :
       /\ calls < MaxCalls
       /\ delete_client_cycle(cl, cy, NoFault)
  \/ \E code \in ConfirmationCodes :
       /\ calls < MaxCalls
       /\ clear_all_data(code, NoFault)
  \/ Tick

Spec == Init /\ [][Next]_vars

\* The same calls with a write that may raise or a table that cannot be
\* read, over three files and short runs
FaultSubmissions ==
  { [file |-> 1, carrier |-> "Acme", cycle |-> "2024-01"],
    [file |-> 2, carrier |-> "Dhl", cycle |-> "2024-01"],
    [file |-> 3, carrier |-> "Acme", cycle |-> "2024-01"] }

FaultNext ==
  \/ \E sub \in FaultSubmissions, rep \in BOOLEAN, fault \in Faults \cup ReadFaults :
       /\ calls < MaxFaultCalls
       /\ process_file_from_path(sub.file, sub.carrier, sub.cycle, rep, fault)
  \/ \E sub \in FaultSubmissions, rep \in BOOLEAN, fault \in Faults \cup ReadFaults :
       /\ calls < MaxFaultCalls
       /\ process_carrier_file(sub.file, sub.carrier, sub.cycle, NoMapping, rep, fault)
  \/ \E cl \in Clients, fault \in Faults \cup ReadFaults :
       /\ calls < MaxFaultCalls
       /\ mark_client_billed(cl, "2024-01", "INV-1", NaT, "net30", fault)
  \/ \E ca \in Carriers, fault \in Faults \cup ReadFaults :
       /\ calls < MaxFaultCalls
       /\ delete_carrier_data(ca, "2024-01", fault)
  \/ \E cl \in Clients, fault \in Faults \cup ReadFaults :
       /\ calls < MaxFaultCalls
       /\ delete_client_cycle(cl, "2024-01", fault)
  \/ \E code \in ConfirmationCodes, fault \in Faults \cup ReadFaults :
       /\ calls < MaxFaultCalls
       /\ clear_all_data(code, fault)

FaultSpec == Init /\ [][FaultNext]_vars

\* The functions without state: an input is drawn, the function is applied
\* to it once
Pending(op, input) == [op |-> op, input |-> input, done |-> FALSE, result |-> <<>>]

ParseInit ==
  /\ shipments = <<>>
  /\ checklist = <<>>
  /\ upload_log = <<>>
  /\ processed_files = <<>>
  /\ now = 0
  /\ last = NoCall
  /\ calls = 0
  /\ input_folder = NoFolder
  /\ sessions = NoSessions
  /\ probe \in {Pending("parse_filename", filename) : filename \in Filenames}
             \cup {Pending("verify_required_columns", headers) : headers \in HeaderRows}
             \cup {Pending("column_map", headers) : headers \in TextHeaderRows}
             \cup {Pending("standardize", [headers |-> headers, column_mapping |-> m]) :
                     headers \in OverrideRows, m \in Overrides}
             \cup {Pending("combine", [store |-> store, entry |-> entry]) :
                     store \in OlderStores, entry \in IngestOps}

ParseFilename ==
  /\ probe.op = "parse_filename" /\ ~probe.done
  /\ probe' = [probe EXCEPT !.done = TRUE, !.result = parse_filename(probe.input)]
  /\ UNCHANGED <<shipments, checklist, upload_log, processed_files, now, last, calls, sessions, input_folder>>

VerifyColumns ==
  /\ probe.op = "verify_required_columns" /\ ~probe.done
  /\ LET df == map_columns(FrameOf(probe.input))
     IN probe' = [probe EXCEPT !.done = TRUE,
                               !.result = [columns |-> df.cols,
                                           error |-> verify_required_columns(df)]]
  /\ UNCHANGED <<shipments, checklist, upload_log, processed_files, now, last, calls, sessions, input_folder>>

\* lines 327-335, 646-654: the rename map of a header row
DetectColumns ==
  /\ probe.op = "column_map" /\ ~probe.done
  /\ probe' = [probe EXCEPT !.done = TRUE, !.result = column_map(probe.input)]
  /\ UNCHANGED <<shipments, checklist, upload_log, processed_files, now, last, calls, sessions, input_folder>>

\* process_carrier_file, lines 587-703, on a one-row file under a manual
\* mapping: clean-up, manual rename, auto-detection, required columns, rows
StandardizeUpload ==
  /\ probe.op = "standardize" /\ ~probe.done
  /\ LET f == [headers |-> probe.input.headers, rows |-> <<LabelRow(probe.input.headers)>>]
         df == MappedFrame(f, probe.input.column_mapping)
     IN probe' = [probe EXCEPT
                    !.done = TRUE,
                    !.result = [error |-> verify_required_columns(df),
                                rows |-> Standardize(df, "Acme", "2024-01", "h0")]]
  /\ UNCHANGED <<shipments, checklist, upload_log, processed_files, now, last, calls, sessions, input_folder>>

\* lines 391-410 and 719-744: the stored rows of an older workbook combined
\* with the valid rows of in/Acme_2024-01.csv
CombineStored ==
  /\ probe.op = "combine" /\ ~probe.done
  /\ LET batch == FilterValid(Standardize(Frames[1, NoMapping], "Acme", "2024-01",
                                          FileCatalogue[1].hash))
     IN probe' = [probe EXCEPT
                    !.done = TRUE,
                    !.result = IF probe.input.entry = "process_file_from_path"
                               THEN CombinePath(probe.input.store, batch)
                               ELSE CombineCarrier(probe.input.store, batch).df]
  /\ UNCHANGED <<shipments, checklist, upload_log, processed_files, now, last, calls, sessions, input_folder>>

ParseNext ==
  ParseFilename \/ VerifyColumns \/ DetectColumns \/ StandardizeUpload \/ CombineStored

ParseSpec == ParseInit /\ [][ParseNext]_vars

----------------------------------------------------------------------------
(* Two sessions.  main() builds a FreightBillingChecker for every browser   *)
(* session over the same data folder; no operation takes a lock.  A session *)
(* runs one operation as its loads and saves, one at a time, and the steps  *)
(* of the two sessions interleave.                                          *)

\* the operation of a session: every job touches cycle 2024-01 of client Xco
Jobs ==
  { [op |-> "process_file_from_path", file |-> 1, carrier |-> "Acme",
     client |-> NoText, cycle |-> "2024-01"],
    [op |-> "process_file_from_path", file |-> 2, carrier |-> "Acme",
     client |-> NoText, cycle |-> "2024-01"],
    [op |-> "process_file_from_path", file |-> 2, carrier |-> "Dhl",
     client |-> NoText, cycle |-> "2024-01"],
    [op |-> "delete_carrier_data", file |-> 0, carrier |-> "Acme",
     client |-> NoText, cycle |-> "2024-01"],
    [op |-> "delete_client_cycle", file |-> 0, carrier |-> NoText,
     client |-> "Xco", cycle |-> "2024-01"] }

\* the loads and saves of an operation in the order of its code
StepsOf(job) ==
  CASE job.op = "process_file_from_path" ->
         <<"check", "load_shipments", "save_shipments", "load_upload_log",
           "save_upload_log", "load_checklist", "save_checklist", "save_config", "done">>
    [] job.op = "delete_carrier_data" ->
         <<"load_shipments", "save_shipments", "load_checklist", "save_checklist",
           "load_upload_log", "save_upload_log", "done">>
    [] OTHER ->
         <<"load_shipments", "save_shipments", "load_checklist", "save_checklist", "done">>

\* a session before the first step of its job; config is the session's own
\* copy of the processed-files list, read when the session starts
StartOf(job) == [job |-> job, at |-> 1, loaded |-> <<>>, ok |-> TRUE, config |-> <<>>]

PcOf(i) == StepsOf(sessions[i].job)[sessions[i].at]

\* the valid rows of the file of an ingestion job
RowsOf(job) ==
  FilterValid(Standardize(Frames[job.file, NoMapping], job.carrier, job.cycle,
                          FileCatalogue[job.file].hash))

\* lines 243-246: the store is loaded and looked up for the key
SessionCheck(i) ==
  /\ i \in DOMAIN sessions /\ PcOf(i) = "check"
  /\ LET job == sessions[i].job
         ex == check_existing_data(shipments, job.carrier, job.cycle)
     IN sessions' =
          [sessions EXCEPT ![i] =
             IF ex.has THEN [@ EXCEPT !.at = Len(StepsOf(job)), !.ok = FALSE]
             ELSE [@ EXCEPT !.at = @ + 1]]
  /\ UNCHANGED <<shipments, checklist, upload_log, processed_files, now, last, calls, probe, input_folder>>

\* a load: the session takes a copy of the table as it stands
SessionLoad(i) ==
  /\ i \in DOMAIN sessions
  /\ PcOf(i) \in {"load_shipments", "load_checklist", "load_upload_log"}
  /\ sessions' =
       [sessions EXCEPT ![i] =
          [@ EXCEPT !.at = @ + 1,
                    !.loaded = CASE PcOf(i) = "load_shipments" -> shipments
                                 [] PcOf(i) = "load_checklist" -> checklist
                                 [] OTHER -> upload_log]]
  /\ UNCHANGED <<shipments, checklist, upload_log, processed_files, now, last, calls, probe, input_folder>>

\* what a save writes: the copy the session loaded, changed by its job
Written(job, step, loaded, t) ==
  CASE job.op = "process_file_from_path" ->
         ( CASE step = "save_shipments" ->
                  save_shipment_data(CombinePath(loaded, RowsOf(job)))
             [] step = "save_upload_log" ->
                  Append(loaded, new_log_entry(FileCatalogue[job.file], job.carrier,
                                               job.cycle, Len(RowsOf(job)),
                                               FileCatalogue[job.file].path))
             [] OTHER -> update_billing_checklist(loaded, RowsOf(job)) )
    [] job.op = "delete_carrier_data" ->
         ( CASE step = "save_upload_log" -> flip_log(loaded, job.carrier, job.cycle, t)
             [] OTHER -> NotOfCarrierCycle(loaded, job.carrier, job.cycle) )
    [] OTHER -> NotOfClientCycle(loaded, job.client, job.cycle)

\* a save: the file of the table is written over; a deletion saves a table
\* only when the copy it loaded has rows
SessionSave(i) ==
  /\ i \in DOMAIN sessions
  /\ PcOf(i) \in {"save_shipments", "save_checklist", "save_upload_log", "save_config"}
  /\ LET job == sessions[i].job
         step == PcOf(i)
         skipped == job.op # "process_file_from_path" /\ sessions[i].loaded = <<>>
         data == Written(job, step, sessions[i].loaded, now)
         path == FileCatalogue[job.file].path
         listing == step = "save_config" /\ path \notin RangeOf(sessions[i].config)
     IN /\ shipments' = IF step = "save_shipments" /\ ~skipped THEN data ELSE shipments
        /\ checklist' = IF step = "save_checklist" /\ ~skipped THEN data ELSE checklist
        /\ upload_log' = IF step = "save_upload_log" /\ ~skipped THEN data ELSE upload_log
        /\ processed_files' =
             IF listing THEN Append(sessions[i].config, path) ELSE processed_files
        /\ sessions' =
             [sessions EXCEPT ![i] =
                [@ EXCEPT !.at = @ + 1,
                          !.config = IF listing THEN Append(@, path) ELSE @]]
  /\ UNCHANGED <<now, last, calls, probe, input_folder>>

ConcInit ==
  /\ shipments = <<>>
  /\ checklist = <<>>
  /\ upload_log = <<>>
  /\ processed_files = <<>>
  /\ now = 0
  /\ last = NoCall
  /\ calls = 0
  /\ input_folder = NoFolder
  /\ probe = NoProbe
  /\ sessions \in {<<StartOf(a), StartOf(b)>> : a \in Jobs, b \in Jobs}

ConcNext == \E i \in {1, 2} : SessionCheck(i) \/ SessionLoad(i) \/ SessionSave(i)

ConcSpec == ConcInit /\ [][ConcNext]_vars

----------------------------------------------------------------------------
(* The configuration: input folder and processed-files list *)

Folders == {"in", "archive"}

ConfigFiles == {1, 2}

ConfigSubmissions ==
  { [file |-> 1, carrier |-> "Acme", cycle |-> "2024-01"],
    [file |-> 3, carrier |-> "Dhl", cycle |-> "2024-01"] }

\* codes typed into the confirmation field
ConfigCodes ==
  {"DELETE_ALL_BILLING_DATA", "delete_all_billing_data", "DELETE_ALL_BILLING_DATA ", ""}

ConfigNext ==
  \/ \E folder \in Folders, fault \in ConfigFaults :
       /\ calls < MaxConfigCalls
       /\ set_input_folder(folder, fault)
  \/ \E fid \in ConfigFiles, fault \in ConfigFaults :
       /\ calls < MaxConfigCalls
       /\ mark_file_as_processed(fid, fault)
  \/ \E fid \in ConfigFiles, fault \in ConfigFaults :
       /\ calls < MaxConfigCalls
       /\ unmark_file_as_processed(fid, fault)
  \/ \E sub \in ConfigSubmissions, fault \in ConfigFaults :
       /\ calls < MaxConfigCalls
       /\ process_file_from_path(sub.file, sub.carrier, sub.cycle, FALSE, fault)
  \/ \E code \in ConfigCodes :
       /\ calls < MaxConfigCalls
       /\ clear_all_data(code, NoFault)

ConfigSpec == Init /\ [][ConfigNext]_vars

----------------------------------------------------------------------------
(* Longer runs over one billing cycle: a file by path, uploads, billing    *)
(* and deletion                                                            *)

RebillUploads ==
  { [file |-> 1, carrier |-> "Dhl", cycle |-> "2024-01"],
    [file |-> 2, carrier |-> "Acme", cycle |-> "2024-02"] }

RebillNext ==
  \/ /\ calls < MaxRebillCalls
     /\ process_file_from_path(1, "Acme", "2024-01", FALSE, NoFault)
  \/ \E sub \in RebillUploads :
       /\ calls < MaxRebillCalls
       /\ process_carrier_file(sub.file, sub.carrier, sub.cycle, NoMapping, FALSE, NoFault)
  \/ \E cl \in Clients :
       /\ calls < MaxRebillCalls
       /\ mark_client_billed(cl, "2024-01", "INV-1", NaT, "net30", NoFault)
  \/ \E ca \in Carriers :
       /\ calls < MaxRebillCalls
       /\ delete_carrier_data(ca, "2024-01", NoFault)

RebillSpec == Init /\ [][RebillNext]_vars

----------------------------------------------------------------------------
(* Properties *)

\* the step is a call (not the passing of a day)
IsCall == calls' = calls + 1

IsIngest(c) == c.op \in IngestOps

AllKeys == RangeOf(KeyOrder)

TablesUnchanged ==
  shipments' = shipments /\ checklist' = checklist /\ upload_log' = upload_log

\* the valid rows of the file of call c, standardized for the call's key
BatchOf(c) ==
  FilterValid(Standardize(Frames[c.file, NoMapping], c.carrier, c.cycle,
                          FileCatalogue[c.file].hash))

\* C1: every aggregate of a (client, carrier, cycle) key has the count and
\* the sums of the stored records of that key, and a key has an aggregate
\* exactly when it has a stored record.
C1_AggregatesMatchStore ==
  \A k \in AllKeys :
    LET recs == OfKey(shipments, k.client, k.carrier, k.cycle_period)
        aggs == OfKey(checklist, k.client, k.carrier, k.cycle_period)
    IN /\ (aggs # <<>>) <=> (recs # <<>>)
       /\ \A i \in 1..Len(aggs) :
            /\ aggs[i].shipment_count = Len(recs)
            /\ aggs[i].total_cost = CostOf(recs)
            /\ aggs[i].total_billable = BillableOf(recs)

\* C2: a successful ingestion keeps every record that was stored under
\* another (carrier, cycle) key, unchanged.
C2_OtherKeysKept ==
  [][(IsCall /\ IsIngest(last') /\ last'.ok) =>
       LET before == NotOfCarrierCycle(shipments, last'.carrier, last'.cycle)
           after == NotOfCarrierCycle(shipments', last'.carrier, last'.cycle)
       IN \A r \in RangeOf(before) :
            LET Is(x) == x = r IN Count(after, Is) >= Count(before, Is)]_vars

\* C3: after a successful replace ingestion for a key that had stored
\* records, the key's stored records and the shipment_count of its
\* aggregates both amount to the valid row count of the new file.
C3_ReplaceNoResidue ==
  (IsIngest(last) /\ last.ok /\ last.replace /\ last.existing_count > 0) =>
     /\ Len(OfCarrierCycle(shipments, last.carrier, last.cycle)) = last.final_count
     /\ CountOf(OfCarrierCycle(checklist, last.carrier, last.cycle)) = last.final_count

C3_Witness ==
  /\ IsIngest(last) /\ last.ok /\ last.replace /\ last.existing_count > 0
  /\ last.final_count > 0
  /\ OfCarrierCycle(checklist, last.carrier, last.cycle) # <<>>

\* C4: an ingestion without replace of a file whose hash is the file_hash
\* of an Active log entry is rejected and leaves the tables unchanged,
\* under the same key and under another key.  (Any rejection is accepted
\* here, whatever its message.)
C4_DuplicateFileRejected ==
  [][(/\ IsCall /\ IsIngest(last') /\ ~last'.replace
      /\ \E i \in 1..Len(upload_log) :
           /\ upload_log[i].status = "Active"
           /\ upload_log[i].file_hash = FileCatalogue[last'.file].hash)
     => (~last'.ok /\ TablesUnchanged)]_vars

\* C5: when the log has an Active entry for the key and replace is not
\* requested, an ingestion of an existing file for the key is rejected as
\* a duplicate of the key, reports the stored record count and leaves the
\* tables unchanged.
C5_ActiveKeyRejected ==
  [][(/\ IsCall /\ IsIngest(last') /\ ~last'.replace
      /\ FileCatalogue[last'.file].exists
      /\ \E i \in 1..Len(upload_log) :
           /\ upload_log[i].status = "Active"
           /\ SameCarrierCycle(upload_log[i], last'.carrier, last'.cycle))
     => (/\ ~last'.ok /\ last'.err = "data_exists"
         /\ last'.existing_count =
              Len(OfCarrierCycle(shipments, last'.carrier, last'.cycle))
         /\ TablesUnchanged)]_vars

\* C6: an aggregate update that meets an existing aggregate of the same
\* (client, carrier, cycle), with no delete in between, leaves a single
\* aggregate whose count and totals are the old ones plus those of the
\* batch.
C6_Additive ==
  [][(/\ IsCall /\ IsIngest(last') /\ last'.ok
      /\ ~(last'.replace /\ last'.existing_count > 0))
     => \A k \in AllKeys :
          LET old == OfKey(checklist, k.client, k.carrier, k.cycle_period)
              new == OfKey(checklist', k.client, k.carrier, k.cycle_period)
              group == OfKey(BatchOf(last'), k.client, k.carrier, k.cycle_period)
          IN (old # <<>> /\ group # <<>>) =>
               /\ Len(new) = 1
               /\ new[1].shipment_count = old[1].shipment_count + Len(group)
               /\ new[1].total_cost = old[1].total_cost + CostOf(group)
               /\ new[1].total_billable = old[1].total_billable + BillableOf(group)]_vars

\* the same batch applied twice to a key: the aggregate counts it twice
C6_Witness ==
  /\ IsIngest(last) /\ last.ok /\ last.added > 0
  /\ \E i \in 1..Len(checklist) :
       /\ SameCarrierCycle(checklist[i], last.carrier, last.cycle)
       /\ checklist[i].shipment_count = 2 * last.final_count
       /\ checklist[i].total_cost =
            2 * CostOf(OfClientCycle(BatchOf(last), checklist[i].client, last.cycle))

\* m is n / d rounded to the nearest integer, a tie going to the even one
IsRounded(m, n, d) ==
  LET Abs(x) == IF x < 0 THEN 0 - x ELSE x
      off == 2 * Abs(m * d - n)
  IN off <= Abs(d) /\ (off = Abs(d) => m % 2 = 0)

\* C7: every aggregate has profit = total_billable - total_cost and, when
\* total_billable is not 0, profit_margin = round(profit / total_billable
\* * 100, 2) (held in hundredths of a percent).
C7_ProfitAndMargin ==
  \A i \in 1..Len(checklist) :
    LET a == checklist[i]
    IN /\ a.profit = a.total_billable - a.total_cost
       /\ a.total_billable # 0 =>
            IsRounded(a.profit_margin, a.profit * 10000, a.total_billable)

\* an aggregate that was added to, with a margin that needed rounding
C7_Witness ==
  /\ IsIngest(last) /\ last.ok /\ last.added > 0
  /\ \E i \in 1..Len(checklist) :
       /\ SameCarrierCycle(checklist[i], last.carrier, last.cycle)
       /\ checklist[i].shipment_count >
            Len(OfClientCycle(BatchOf(last), checklist[i].client, last.cycle))
       /\ checklist[i].total_billable # 0
       /\ checklist[i].profit_margin * checklist[i].total_billable
            # checklist[i].profit * 10000

CycleFilters == Cycles \cup {NoText}

\* C8: a row of get_client_summary is Billed if and only if every
\* aggregate of its (client, cycle_period) is Billed, and the summary has
\* one row for each (client, cycle_period) that has an aggregate.
C8_SummaryBilledIffAll ==
  \A cf \in CycleFilters :
    LET summary == get_client_summary(checklist, cf)
        Selected(a) == cf = NoText \/ a.cycle_period = cf
    IN /\ \A i \in 1..Len(summary) :
            LET aggs == {a \in RangeOf(checklist) :
                           SameClientCycle(a, summary[i].client, summary[i].cycle_period)}
            IN /\ aggs # {}
               /\ (summary[i].invoice_status = "Billed")
                    <=> (\A a \in aggs : a.invoice_status = "Billed")
               /\ summary[i].invoice_status \in {"Billed", "Ready to Bill"}
       /\ \A a \in RangeOf(checklist) :
            Selected(a) =>
              Cardinality({i \in 1..Len(summary) :
                             SameClientCycle(a, summary[i].client,
                                             summary[i].cycle_period)}) = 1

\* a client/cycle with one Billed and one Ready to Bill carrier aggregate,
\* summarised as Ready to Bill
C8_Witness ==
  \E a, b \in RangeOf(checklist) :
    /\ SameClientCycle(b, a.client, a.cycle_period)
    /\ a.invoice_status = "Billed" /\ b.invoice_status = "Ready to Bill"
    /\ \E r \in RangeOf(get_client_summary(checklist, NoText)) :
         /\ SameClientCycle(a, r.client, r.cycle_period)
         /\ r.invoice_status = "Ready to Bill"

\* the call repeats the mark_client_billed call made just before it
RepeatedMark ==
  IsCall /\ last.op = "mark_client_billed" /\ last'.op = "mark_client_billed"
         /\ last'.repeat

\* C9 as stated: a second mark_client_billed call with identical arguments,
\* the invoice date given or omitted, leaves aggregates and records as the
\* first call left them.
C9_MarkBilledIdempotent ==
  [][RepeatedMark => (checklist' = checklist /\ shipments' = shipments)]_vars

\* a table with the invoice dates of another table of the same length
WithDatesOf(new, old) ==
  [i \in 1..Len(new) |-> [new[i] EXCEPT !.invoice_date = old[i].invoice_date]]

\* C9 amended: the second call leaves aggregates and records unchanged when
\* the invoice date is given; when it is omitted the second call changes
\* nothing but the invoice date of the rows of the (client, cycle), which
\* becomes the day of the second call.
C9_MarkBilledIdempotentButDate ==
  [][RepeatedMark =>
       IF last'.date # NaT
       THEN checklist' = checklist /\ shipments' = shipments
       ELSE /\ Len(checklist') = Len(checklist) /\ Len(shipments') = Len(shipments)
            /\ WithDatesOf(checklist', checklist) = checklist
            /\ WithDatesOf(shipments', shipments) = shipments
            /\ \A i \in 1..Len(checklist) :
                 checklist'[i].invoice_date =
                   IF SameClientCycle(checklist[i], last'.client, last'.cycle)
                   THEN Date(now) ELSE checklist[i].invoice_date
            /\ \A i \in 1..Len(shipments) :
                 shipments'[i].invoice_date =
                   IF SameClientCycle(shipments[i], last'.client, last'.cycle)
                   THEN Date(now) ELSE shipments[i].invoice_date]_vars

\* a repeated call with the date omitted, after a day has passed, that met
\* rows of the (client, cycle) in both tables
C9_Witness ==
  /\ last.op = "mark_client_billed" /\ last.repeat
  /\ last.date = NaT /\ now > 0
  /\ \E a \in RangeOf(OfClientCycle(checklist, last.client, last.cycle)) :
       a.invoice_date = Date(now)
  /\ \E r \in RangeOf(OfClientCycle(shipments, last.client, last.cycle)) :
       r.invoice_date = Date(now)

\* C10: after mark_client_billed every aggregate and every record of the
\* (client, cycle), whatever the carrier, is Billed with the given invoice
\* number and date; the rows of any other (client, cycle) are unchanged and
\* no row is added or dropped.
C10_MarkBilledAll ==
  [][(IsCall /\ last'.op = "mark_client_billed") =>
       LET c == last'
           d == IF c.date = NaT THEN Date(now) ELSE c.date
           Done(r) == /\ r.invoice_status = "Billed"
                      /\ r.invoice_number = c.inv
                      /\ r.invoice_date = d
       IN /\ \A a \in RangeOf(OfClientCycle(checklist', c.client, c.cycle)) : Done(a)
          /\ \A r \in RangeOf(OfClientCycle(shipments', c.client, c.cycle)) : Done(r)
          /\ Len(checklist') = Len(checklist) /\ Len(shipments') = Len(shipments)
          /\ \A i \in 1..Len(checklist) :
               IF SameClientCycle(checklist[i], c.client, c.cycle)
               THEN SameClientCycle(checklist'[i], c.client, c.cycle)
               ELSE checklist'[i] = checklist[i]
          /\ \A i \in 1..Len(shipments) :
               IF SameClientCycle(shipments[i], c.client, c.cycle)
               THEN SameClientCycle(shipments'[i], c.client, c.cycle)
               ELSE shipments'[i] = shipments[i]]_vars

\* a client/cycle billed across two carriers, next to another client's rows
C10_Witness ==
  /\ last.op = "mark_client_billed"
  /\ \E a, b \in RangeOf(OfClientCycle(checklist, last.client, last.cycle)) :
       a.carrier # b.carrier /\ a.invoice_number = last.inv /\ b.invoice_number = last.inv
  /\ \E r \in RangeOf(OfClientCycle(shipments, last.client, last.cycle)) :
       r.invoice_status = "Billed"
  /\ \E a \in RangeOf(checklist) : ~SameClientCycle(a, last.client, last.cycle)
  /\ \E r \in RangeOf(shipments) : ~SameClientCycle(r, last.client, last.cycle)

DeleteOps == {"delete_carrier_data", "delete_client_cycle", "clear_all_data"}

EntryOf(e) ==
  <<e.filename, e.file_hash, e.records_imported, e.carrier, e.cycle_period, e.source_path>>

\* C13: no call removes a log entry: every entry is still there after the
\* call, at its place, with at most status and deleted_date changed.
C13_LogEntriesKept ==
  [][IsCall =>
       /\ Len(upload_log') >= Len(upload_log)
       /\ \A i \in 1..Len(upload_log) :
            EntryOf(upload_log'[i]) = EntryOf(upload_log[i])]_vars

\* C14: an ingestion call adds one log entry when it returns success and
\* none when it returns failure, a failure by a raised write included.
C14_OneEntryPerSuccess ==
  [][(IsCall /\ IsIngest(last')) =>
       Len(upload_log') = Len(upload_log) + (IF last'.ok THEN 1 ELSE 0)]_vars

\* C15: after a successful replace ingestion for a key that had stored
\* records, no earlier record or aggregate of the key is left, every log
\* entry of the key that was Active is Deleted with a deleted_date, and the
\* appended entry is the only Active one of the key.
C15_ReplaceFlipsLog ==
  [][(/\ IsCall /\ IsIngest(last') /\ last'.ok /\ last'.replace
      /\ last'.existing_count > 0)
     => /\ Len(OfCarrierCycle(shipments', last'.carrier, last'.cycle)) = last'.final_count
        /\ CountOf(OfCarrierCycle(checklist', last'.carrier, last'.cycle)) = last'.final_count
        /\ Len(upload_log') = Len(upload_log) + 1
        /\ \A i \in 1..Len(upload_log) :
             (/\ SameCarrierCycle(upload_log[i], last'.carrier, last'.cycle)
              /\ upload_log[i].status = "Active")
             => /\ upload_log'[i].status = "Deleted"
                /\ upload_log'[i].deleted_date # NaT
        /\ \A i \in 1..Len(upload_log') :
             (/\ SameCarrierCycle(upload_log'[i], last'.carrier, last'.cycle)
              /\ upload_log'[i].status = "Active")
             => i = Len(upload_log')]_vars

\* C16: an ingestion call that returns failure leaves the three tables as
\* they were.
C16_FailureChangesNothing ==
  [][(IsCall /\ IsIngest(last') /\ ~last'.ok) => TablesUnchanged]_vars

\* the rename map of a file of the catalogue, as pairs <<header, field>>
MapOf(fid) ==
  LET cols == CleanFrame(ReadFrame(FileCatalogue[fid])).cols
      map == ColumnMap(cols)
  IN {<<h, map[h]>> : h \in DOMAIN map}

\* C17: in an empty system the file with headers Customer, Total Cost, Bill
\* Amount, Tracking ID and rows (10, 15), (20, 25), (0, 0) of one client,
\* ingested for Acme / 2024-01 by either ingestion operation, succeeds: the
\* four headers are mapped to client, cost, billable_amount and
\* tracking_number, 2 records are stored, and the one aggregate has
\* total_cost 30, total_billable 40, profit 10 and profit_margin 25.00.
C17_ScenarioIngest ==
  [][(/\ IsCall /\ IsIngest(last')
      /\ shipments = <<>> /\ checklist = <<>> /\ upload_log = <<>>
      /\ last'.file = 1 /\ last'.carrier = "Acme" /\ last'.cycle = "2024-01")
     => /\ MapOf(1) = { <<"Customer", "client">>, <<"Total Cost", "cost">>,
                        <<"Bill Amount", "billable_amount">>,
                        <<"Tracking ID", "tracking_number">> }
        /\ last'.ok
        /\ last'.initial_count = 3 /\ last'.final_count = 2
        /\ Len(shipments') = 2
        /\ Len(checklist') = 1
        /\ checklist'[1].shipment_count = 2
        /\ checklist'[1].total_cost = 30
        /\ checklist'[1].total_billable = 40
        /\ checklist'[1].profit = 10
        /\ checklist'[1].profit_margin = 2500]_vars

\* the two file names of the scenarios with the results stated for them
ScenarioNames ==
  { [filename |-> <<"F", "e", "d", "E", "x", "_", "N", "o", "v", "e", "m", "b", "e", "r", "2", "0", "2", "4", ".", "x", "l", "s", "x">>,
     carrier |-> <<"F", "e", "d", "e", "x">>, cycle |-> <<"2", "0", "2", "4", "-", "1", "1">>],
    [filename |-> <<"d", "h", "l", "-", "w", "e", "e", "k", "1", ".", "c", "s", "v">>,
     carrier |-> <<"D", "h", "l">>, cycle |-> <<"w", "e", "e", "k", "1">>] }

\* the result for a stem cut at place i, the carrier token changed by Clean
\* before it is title-cased
CutAt(st, i, Clean(_)) ==
  [parsed |-> TRUE,
   carrier |-> title(Clean(SubSeq(st, 1, i - 1))),
   cycle |-> normalize_cycle_period(SubSeq(st, i + 1, Len(st)))]

\* the results stated for the two scenario names
ScenariosHold ==
  \A sc \in ScenarioNames :
    probe.input = sc.filename =>
      probe.result = [parsed |-> TRUE, carrier |-> sc.carrier, cycle |-> sc.cycle]

RequiredFields == {"client", "cost", "billable_amount"}

\* C19: the required-columns test on the renamed columns fails exactly when
\* one of client, cost, billable_amount is not among them; the failure
\* names each absent required field once, and no other, and the columns at
\* hand; a missing optional field does not make it fail.
C19_MissingColumns ==
  (probe.op = "verify_required_columns" /\ probe.done) =>
    LET cols == probe.result.columns
        e == probe.result.error
        absent == RequiredFields \ RangeOf(cols)
    IN /\ e.failed <=> (absent # {})
       /\ e.failed => /\ RangeOf(e.missing) = absent
                      /\ Len(e.missing) = Cardinality(absent)
                      /\ e.available = cols
       /\ (RequiredFields \subseteq RangeOf(cols) /\ "tracking_number" \notin RangeOf(cols))
            => ~e.failed

\* headers with the client and the tracking number and neither amount: the
\* failure names cost and billable_amount
C19_Witness ==
  /\ probe.op = "verify_required_columns" /\ probe.done
  /\ probe.result.error.failed
  /\ probe.result.error.missing = <<"cost", "billable_amount">>
  /\ "client" \in RangeOf(probe.result.error.available)
  /\ "tracking_number" \in RangeOf(probe.result.error.available)

\* C20: every ingestion and every deletion call returns a (flag, message)
\* pair, also when a write raises during the call: the flag is then False
\* and the message that of the handler.
C20_AlwaysReturns ==
  [][(IsCall /\ last'.op \in IngestOps \cup DeleteOps) =>
       /\ last'.returned
       /\ last'.ok \in BOOLEAN
       /\ (last'.fault # NoFault) => (~last'.ok /\ last'.err = "exception")
       /\ last'.ok <=> (last'.err = "none")]_vars

\* a deletion ended by the write of the checklist after the store was saved
C20_Witness ==
  /\ last.op = "delete_carrier_data" /\ last.fault = "save_checklist"
  /\ last.returned /\ ~last.ok
  /\ checklist # <<>>
  /\ OfCarrierCycle(shipments, last.carrier, last.cycle) = <<>>
  /\ OfCarrierCycle(checklist, last.carrier, last.cycle) # <<>>

\* the table a read fault names
TableOf(read_fault) ==
  CASE read_fault = "read_shipments" -> <<shipments, shipments'>>
    [] read_fault = "read_checklist" -> <<checklist, checklist'>>
    [] OTHER -> <<upload_log, upload_log'>>

\* C21: a call that loads a table it cannot read fails with an error and
\* leaves that table as it was: the table is not taken for empty and no save
\* of the call replaces it.
C21_UnreadableNotEmpty ==
  [][(IsCall /\ last'.unread # NoFault) =>
       /\ ~last'.ok /\ last'.err = "exception"
       /\ TableOf(last'.unread)[1] = TableOf(last'.unread)[2]]_vars

\* the store and the checklist after a job has run alone on tables t
RunAlone(t, job) ==
  CASE job.op = "process_file_from_path" ->
         IF check_existing_data(t.shipments, job.carrier, job.cycle).has THEN t
         ELSE [shipments |-> save_shipment_data(CombinePath(t.shipments, RowsOf(job))),
               checklist |-> update_billing_checklist(t.checklist, RowsOf(job))]
    [] job.op = "delete_carrier_data" ->
         [shipments |-> NotOfCarrierCycle(t.shipments, job.carrier, job.cycle),
          checklist |-> NotOfCarrierCycle(t.checklist, job.carrier, job.cycle)]
    [] OTHER ->
         [shipments |-> NotOfClientCycle(t.shipments, job.client, job.cycle),
          checklist |-> NotOfClientCycle(t.checklist, job.client, job.cycle)]

EmptyTables == [shipments |-> <<>>, checklist |-> <<>>]

\* C22: when two sessions have each run an ingestion or a deletion touching
\* the same key on the same data folder, the store and the aggregates are
\* those of one of the two orders in which the operations can run one after
\* the other.
C22_SerialOutcome ==
  (sessions # NoSessions /\ PcOf(1) = "done" /\ PcOf(2) = "done") =>
    [shipments |-> shipments, checklist |-> checklist]
      \in { RunAlone(RunAlone(EmptyTables, sessions[1].job), sessions[2].job),
            RunAlone(RunAlone(EmptyTables, sessions[2].job), sessions[1].job) }

\* lowercased, trimmed, blanks and underscores removed
Normalised(text) ==
  LET Kept(c) == c \notin {" ", "_"} IN SelectSeq(Lower(text), Kept)

\* the places of the headers whose normalised form is that of an alias of
\* field k
MatchesOf(cols, k) ==
  {j \in 1..Len(cols) :
     \E v \in alias_table[k].variants : Normalised(cols[j]) = Normalised(v)}

\* C23: the rename map of a header row assigns to each field, taken in the
\* declared order, the first header in file order whose normalised form is
\* that of one of the field's aliases, and nothing else; no header has two
\* fields and no field two headers.
C23_FirstMatchWins ==
  (probe.op = "column_map" /\ probe.done) =>
    LET cols == probe.input
        map == probe.result
        pairs == {<<h, map[h]>> : h \in DOMAIN map}
    IN /\ pairs =
            { <<cols[CHOOSE j \in MatchesOf(cols, k) :
                          \A i \in MatchesOf(cols, k) : j <= i], alias_table[k].name>> :
                k \in {n \in 1..Len(alias_table) : MatchesOf(cols, n) # {}} }
       /\ DOMAIN map \subseteq RangeOf(cols)
       /\ \A p, q \in pairs : (p[1] = q[1]) <=> (p[2] = q[2])

\* a row with two headers for cost, 'cost' before 'Total Cost', and the
\* header ' Customer_Name ': cost goes to 'cost' alone
C23_Witness ==
  /\ probe.op = "column_map" /\ probe.done
  /\ probe.input = << <<"c", "o", "s", "t">>,
                      <<"T", "o", "t", "a", "l", " ", "C", "o", "s", "t">>,
                      <<" ", "C", "u", "s", "t", "o", "m", "e", "r", "_", "N", "a", "m", "e", " ">> >>
  /\ DOMAIN probe.result =
       { <<"c", "o", "s", "t">>,
         <<" ", "C", "u", "s", "t", "o", "m", "e", "r", "_", "N", "a", "m", "e", " ">> }
  /\ probe.result[<<"c", "o", "s", "t">>] = "cost"
  /\ probe.result[<<" ", "C", "u", "s", "t", "o", "m", "e", "r", "_", "N", "a", "m", "e", " ">>] = "client"

\* C24: under a manual mapping of header h to field f the rows are stored
\* with the values of column h in field f, whatever other header of the file
\* matches an alias of f and whatever the order of the columns.
C24_OverridePrecedes ==
  (probe.op = "standardize" /\ probe.done /\ ~probe.result.error.failed) =>
    \A h \in DOMAIN probe.input.column_mapping :
      \A i \in 1..Len(probe.result.rows) :
        probe.result.rows[i][probe.input.column_mapping[h]] = h

\* the last n rows of a table
LastRows(df, n) == SubSeq(df, Len(df) - n + 1, Len(df))

\* C25: an ingestion that reaches the row filter keeps exactly the rows of
\* the file whose cost and billable_amount are both present and not both 0;
\* the counts it reports are those of the rows before and after the filter;
\* it fails with the no-valid-records error exactly when no row is kept, and
\* on success the kept rows, in file order, are the batch it stores.
C25_RowFilter ==
  [][(/\ IsCall /\ IsIngest(last')
      /\ last'.err \in {"none", "no_valid_records", "exception"})
     => LET rows == Standardize(Frames[last'.file, NoMapping], last'.carrier,
                               last'.cycle, FileCatalogue[last'.file].hash)
            Kept(r) == /\ r.cost # NaN /\ r.billable_amount # NaN
                       /\ ~(r.cost = 0 /\ r.billable_amount = 0)
            kept == SelectSeq(rows, Kept)
        IN /\ last'.initial_count = Len(rows)
           /\ last'.final_count = Len(kept)
           /\ (kept = <<>>) <=> (last'.err = "no_valid_records")
           /\ last'.err = "no_valid_records" => ~last'.ok
           /\ last'.ok => /\ Len(shipments') >= Len(kept)
                           /\ LastRows(shipments', Len(kept)) = save_shipment_data(kept)]_vars

\* the file with the rows (5, 0), (4, 7) and (empty, 3) was ingested: one
\* row of three was removed and the row with a billable_amount of 0 is stored
C25_Witness ==
  /\ IsIngest(last) /\ last.ok /\ last.file = 2
  /\ last.initial_count = 3 /\ last.final_count = 2
  /\ LastRows(shipments, 2)[1].cost = 5
  /\ LastRows(shipments, 2)[1].billable_amount = 0
  /\ LastRows(shipments, 2)[2].cost = 4

\* the default of a canonical column: null for a date, 0 for an amount, the
\* empty text otherwise
DefaultOf(col) ==
  IF col = "invoice_date" THEN NaT
  ELSE IF col \in {"cost", "billable_amount"} THEN 0
  ELSE ""

\* C26: the table an ingestion combines holds every stored record, before
\* the batch, with the full set of canonical columns: each column the stored
\* table lacks has its default, each column it has keeps its stored value, by
\* either entry point.
C26_BackFilled ==
  (probe.op = "combine" /\ probe.done) =>
    LET store == probe.input.store
    IN /\ Len(probe.result) >= Len(store)
       /\ \A i \in 1..Len(store) :
            /\ DOMAIN probe.result[i] = STANDARD_COLUMNS
            /\ \A col \in STANDARD_COLUMNS :
                 probe.result[i][col] =
                   IF col \in DOMAIN store[i] THEN store[i][col] ELSE DefaultOf(col)

\* C27: a successful ingestion appends one entry to the upload log: status
\* Active, no deleted_date, the carrier and cycle of the call, the hash of
\* the file, records_imported the number of rows left by the filter, and
\* source_path the path of the file for process_file_from_path, null for
\* process_carrier_file.
C27_LedgerEntry ==
  [][(IsCall /\ IsIngest(last') /\ last'.ok)
     => /\ Len(upload_log') = Len(upload_log) + 1
        /\ SubSeq(upload_log', 1, Len(upload_log)) = upload_log
        /\ LET e == upload_log'[Len(upload_log')]
           IN /\ e.status = "Active"
              /\ e.deleted_date = NaT
              /\ e.carrier = last'.carrier
              /\ e.cycle_period = last'.cycle
              /\ e.file_hash = FileCatalogue[last'.file].hash
              /\ e.records_imported = last'.final_count
              /\ e.records_imported = Len(BatchOf(last'))
              /\ e.source_path = IF last'.op = "process_file_from_path"
                                 THEN FileCatalogue[last'.file].path
                                 ELSE NoText]_vars

C27_Witness ==
  /\ last.op = "process_carrier_file" /\ last.ok
  /\ Len(upload_log) >= 2
  /\ upload_log[Len(upload_log)].source_path = NoText
  /\ upload_log[Len(upload_log)].records_imported = 2
  /\ \E i \in 1..(Len(upload_log) - 1) :
       /\ upload_log[i].file_hash = FileCatalogue[1].hash
       /\ upload_log[i].source_path = FileCatalogue[1].path

\* C28: delete_carrier_data(carrier, cycle) leaves in the shipment table and
\* in the checklist exactly the rows of the other (carrier, cycle) keys, as
\* they were and in their order; every log entry of the key becomes Deleted
\* with the time of the call as deleted_date, every other log entry is
\* unchanged.
C28_DeleteCarrier ==
  [][(IsCall /\ last'.op = "delete_carrier_data")
     => LET Other(r) == ~(r.carrier = last'.carrier /\ r.cycle_period = last'.cycle)
        IN /\ last'.ok
           /\ shipments' = SelectSeq(shipments, Other)
           /\ checklist' = SelectSeq(checklist, Other)
           /\ Len(upload_log') = Len(upload_log)
           /\ \A i \in 1..Len(upload_log) :
                IF Other(upload_log[i])
                THEN upload_log'[i] = upload_log[i]
                ELSE /\ upload_log'[i] = [upload_log[i] EXCEPT !.status = "Deleted",
                                                               !.deleted_date = now]
                     /\ upload_log'[i].deleted_date # NaT]_vars

C28_Witness ==
  /\ last.op = "delete_carrier_data" /\ last.ok
  /\ \E i, j \in 1..Len(upload_log) :
       /\ upload_log[i].carrier = last.carrier /\ upload_log[i].cycle_period = last.cycle
       /\ upload_log[i].status = "Deleted" /\ upload_log[i].deleted_date # NaT
       /\ ~(upload_log[j].carrier = last.carrier /\ upload_log[j].cycle_period = last.cycle)
       /\ upload_log[j].status = "Active"
  /\ shipments # <<>> /\ checklist # <<>>
  /\ Len(shipments) < SumSeq([i \in 1..Len(upload_log) |-> upload_log[i].records_imported])

\* C29: delete_client_cycle(client, cycle) leaves in the shipment table and
\* in the checklist exactly the rows that are not of that client and cycle,
\* as they were and in their order, whatever their carrier: the rows of
\* another client under the same carrier and cycle stay.
C29_DeleteClientCycle ==
  [][(IsCall /\ last'.op = "delete_client_cycle")
     => LET Other(r) == ~(r.client = last'.client /\ r.cycle_period = last'.cycle)
        IN /\ last'.ok
           /\ shipments' = SelectSeq(shipments, Other)
           /\ checklist' = SelectSeq(checklist, Other)]_vars

\* in/mixed.xlsx was ingested with its two valid rows, one of Xco and one of
\* Yco; Xco was deleted for the cycle and the row of Yco is still stored
C29_Witness ==
  /\ last.op = "delete_client_cycle" /\ last.ok /\ last.client = "Xco"
  /\ \E i \in 1..Len(upload_log) :
       /\ upload_log[i].file_hash = FileCatalogue[2].hash
       /\ upload_log[i].cycle_period = last.cycle
       /\ upload_log[i].records_imported = 2
       /\ \E r \in RangeOf(shipments) :
            /\ r.client = "Yco" /\ r.carrier = upload_log[i].carrier
            /\ r.cycle_period = last.cycle
       /\ \E a \in RangeOf(checklist) :
            /\ a.client = "Yco" /\ a.carrier = upload_log[i].carrier
            /\ a.cycle_period = last.cycle
  /\ \A r \in RangeOf(shipments) : ~(r.client = "Xco" /\ r.cycle_period = last.cycle)
  /\ \A a \in RangeOf(checklist) : ~(a.client = "Xco" /\ a.cycle_period = last.cycle)

\* C30: an aggregate whose total_billable is 0 has a null profit_margin,
\* never a number and never an infinity, when it is inserted and after an
\* additive update.
C30_ZeroBillableMargin ==
  \A i \in 1..Len(checklist) :
    checklist[i].total_billable = 0 => checklist[i].profit_margin = NaN

\* C31: the log entry of a batch is written after the aggregates reflect
\* the batch: whenever an ingestion call, failed ones included, leaves a new
\* Active entry of its file in the log, every (client, carrier, cycle) group
\* of the batch has its aggregate in the checklist.
C31_LedgerAfterAggregates ==
  [][(/\ IsCall /\ IsIngest(last')
      /\ upload_log' # upload_log
      /\ upload_log' # <<>>
      /\ upload_log'[Len(upload_log')].status = "Active"
      /\ upload_log'[Len(upload_log')].file_hash = FileCatalogue[last'.file].hash)
     => \A k \in AllKeys :
          LET group == OfKey(BatchOf(last'), k.client, k.carrier, k.cycle_period)
              entry == OfKey(checklist', k.client, k.carrier, k.cycle_period)
          IN group # <<>> => /\ entry # <<>>
                             /\ CountOf(entry) >= Len(group)]_vars

\* C32: clear_all_data with a code other than DELETE_ALL_BILLING_DATA
\* returns failure and leaves the tables, the processed-files list and the
\* input folder as they were; with that code it returns success, the three
\* tables and the processed-files list are empty and the input folder is
\* kept.
C32_ClearGuard ==
  [][(IsCall /\ last'.op = "clear_all_data")
     => IF last'.code = "DELETE_ALL_BILLING_DATA"
        THEN /\ last'.ok
             /\ shipments' = <<>> /\ checklist' = <<>> /\ upload_log' = <<>>
             /\ processed_files' = <<>>
             /\ input_folder' = input_folder
        ELSE /\ ~last'.ok
             /\ TablesUnchanged
             /\ processed_files' = processed_files
             /\ input_folder' = input_folder]_vars

C32_Witness ==
  /\ last.op = "clear_all_data" /\ last.ok /\ calls = 3
  /\ input_folder \in Folders
  /\ shipments = <<>> /\ checklist = <<>> /\ upload_log = <<>> /\ processed_files = <<>>

\* the file of call c is there, in a supported format, with the required
\* columns and at least one valid row
Ingestible(c) ==
  /\ FileCatalogue[c.file].exists
  /\ FileCatalogue[c.file].ext \in {"xlsx", "csv"}
  /\ MissingCols(Frames[c.file, NoMapping]) = <<>>
  /\ BatchOf(c) # <<>>

\* C33: an ingestion of such a file for a (carrier, cycle) that has no
\* stored records, or whose records a replace removes, returns success and
\* the stored records of the key are then exactly the valid rows of the
\* file, by either entry point and whatever else the store holds, an empty
\* store included.
C33_FirstIngestSucceeds ==
  [][(/\ IsCall /\ IsIngest(last') /\ Ingestible(last')
      /\ (OfCarrierCycle(shipments, last'.carrier, last'.cycle) = <<>> \/ last'.replace))
     => /\ last'.ok
        /\ OfCarrierCycle(shipments', last'.carrier, last'.cycle)
             = save_shipment_data(BatchOf(last'))]_vars

\* a log without the source_path column
WithoutSourcePath(log) ==
  [i \in 1..Len(log) |-> [log[i] EXCEPT !.source_path = NoText]]

\* C34: in every state the two entry points, given the same file, carrier,
\* cycle and replace flag (and no manual mapping), return the same outcome
\* and leave the same shipment table, the same checklist and, source_path
\* aside, the same log.
C34_EntryPointsAgree ==
  \A sub \in Uploads, rep \in BOOLEAN :
    LET by_path == process_file_from_path_result(sub.file, sub.carrier, sub.cycle,
                                                 rep, NoFault)
        by_upload == process_carrier_file_result(sub.file, sub.carrier, sub.cycle,
                                                 NoMapping, rep, NoFault)
    IN /\ by_path.ok = by_upload.ok
       /\ by_path.shipments = by_upload.shipments
       /\ by_path.checklist = by_upload.checklist
       /\ WithoutSourcePath(by_path.upload_log) = WithoutSourcePath(by_upload.upload_log)

\* the (carrier, cycle) keys
CarrierCycles == Carriers \X Cycles

\* C35: in every state and for every (carrier, cycle), the store has a
\* record of the key exactly when the log has an Active entry of the key;
\* the key then has one Active entry, and its records_imported is the number
\* of stored records of the key.
C35_ActiveEntryMatchesStore ==
  \A k \in CarrierCycles :
    LET stored == OfCarrierCycle(shipments, k[1], k[2])
        IsActive(e) == e.status = "Active"
        active == SelectSeq(OfCarrierCycle(upload_log, k[1], k[2]), IsActive)
    IN /\ (stored # <<>>) <=> (active # <<>>)
       /\ stored # <<>> => /\ Len(active) = 1
                            /\ active[1].records_imported = Len(stored)

\* C36: a log entry that is Deleted stays as it is for as long as the log
\* has it: after any step its status is Deleted and its deleted_date is the
\* one it had.
C36_DeletedEntryImmutable ==
  [][\A i \in 1..Len(upload_log) :
       (upload_log[i].status = "Deleted" /\ i <= Len(upload_log'))
         => /\ upload_log'[i].status = "Deleted"
            /\ upload_log'[i].deleted_date = upload_log[i].deleted_date]_vars

\* C37: in every state each stored record has the invoice_status and the
\* invoice number of the aggregate of its (client, carrier, cycle).
C37_RecordsFollowAggregate ==
  \A i \in 1..Len(shipments) :
    LET r == shipments[i]
        entry == OfKey(checklist, r.client, r.carrier, r.cycle_period)
    IN /\ entry # <<>>
       /\ \A j \in 1..Len(entry) :
            /\ entry[j].invoice_status = r.invoice_status
            /\ entry[j].invoice_number = r.invoice_number

\* the canonical field names as header texts
field_text ==
  [name \in {"client", "tracking_number", "service_type", "cost", "billable_amount",
             "weight", "zone", "ship_date", "delivery_date"} |->
     CASE name = "client" -> <<"c", "l", "i", "e", "n", "t">>
       [] name = "tracking_number" -> <<"t", "r", "a", "c", "k", "i", "n", "g", "_", "n", "u", "m", "b", "e", "r">>
       [] name = "service_type" -> <<"s", "e", "r", "v", "i", "c", "e", "_", "t", "y", "p", "e">>
       [] name = "cost" -> <<"c", "o", "s", "t">>
       [] name = "billable_amount" -> <<"b", "i", "l", "l", "a", "b", "l", "e", "_", "a", "m", "o", "u", "n", "t">>
       [] name = "weight" -> <<"w", "e", "i", "g", "h", "t">>
       [] name = "zone" -> <<"z", "o", "n", "e">>
       [] name = "ship_date" -> <<"s", "h", "i", "p", "_", "d", "a", "t", "e">>
       [] name = "delivery_date" -> <<"d", "e", "l", "i", "v", "e", "r", "y", "_", "d", "a", "t", "e">>]

\* the labels of a header row after df.rename(columns=map)
Renamed(cols, map) ==
  [j \in 1..Len(cols) |-> IF cols[j] \in DOMAIN map THEN field_text[map[cols[j]]] ELSE cols[j]]

\* C38: after the renames no canonical field name stands over two columns:
\* for every header row under auto-detection (a header that is the field
\* name itself beside a header that is an alias of the field), and for every
\* header row under a manual override followed by auto-detection.
C38_NoFieldTwice ==
  /\ (probe.op = "column_map" /\ probe.done) =>
       LET labels == Renamed(probe.input, probe.result)
       IN \A name \in DOMAIN field_text :
            Cardinality({j \in 1..Len(labels) : labels[j] = field_text[name]}) <= 1
  /\ (probe.op = "standardize" /\ probe.done) =>
       LET f == [headers |-> probe.input.headers,
                 rows |-> <<LabelRow(probe.input.headers)>>]
           labels == MappedFrame(f, probe.input.column_mapping).cols
       IN \A name \in DOMAIN field_text :
            Cardinality({j \in 1..Len(labels) : labels[j] = name}) <= 1

\* C39: a path comes into the processed-files list only by
\* mark_file_as_processed or by a process_file_from_path call that returns
\* success; the list never has a path twice; after unmark_file_as_processed
\* the list does not have the path.
C39_ProcessedFiles ==
  [][IsCall
     => /\ \A p \in RangeOf(processed_files') \ RangeOf(processed_files) :
             \/ last'.op = "mark_file_as_processed"
             \/ last'.op = "process_file_from_path" /\ last'.ok
        /\ \A i, j \in 1..Len(processed_files') :
             processed_files'[i] = processed_files'[j] => i = j
        /\ last'.op = "unmark_file_as_processed"
             => FileCatalogue[last'.file].path \notin RangeOf(processed_files')]_vars

\* the sessions have both run an ingestion to its end, for different
\* (carrier, cycle) keys, and neither was refused
BothIngested ==
  /\ sessions # NoSessions
  /\ PcOf(1) = "done" /\ PcOf(2) = "done"
  /\ \A i \in {1, 2} : sessions[i].job.op = "process_file_from_path" /\ sessions[i].ok
  /\ <<sessions[1].job.carrier, sessions[1].job.cycle>>
       # <<sessions[2].job.carrier, sessions[2].job.cycle>>

\* C40: when two ingestions for different (carrier, cycle) keys have run
\* interleaved in two sessions over the same data folder and both returned
\* success, the shipment store holds the records of both batches, the
\* aggregates hold both keys and the ledger holds both entries.
C40_BothBatchesKept ==
  BothIngested =>
    \A i \in {1, 2} :
      LET job == sessions[i].job
      IN /\ Len(OfCarrierCycle(shipments, job.carrier, job.cycle)) = Len(RowsOf(job))
         /\ OfCarrierCycle(checklist, job.carrier, job.cycle) # <<>>
         /\ \E k \in 1..Len(upload_log) :
              /\ upload_log[k].carrier = job.carrier
              /\ upload_log[k].cycle_period = job.cycle
              /\ upload_log[k].file_hash = FileCatalogue[job.file].hash

====
